------------------------------ MODULE Channel ------------------------------
(***************************************************************************)
(* The request channel: the client's send_request_and_get_response, the    *)
(* loop of server/main.c in front of the dispatcher, and the connection    *)
(* between them.  A frame is its request nonce, its opcode and the keys it *)
(* is sealed under; a handler is one step here (DssServer has its detail). *)
(* The replay cache is the module Replay, step by step.                    *)
(***************************************************************************)
EXTENDS Integers, Sequences, FiniteSets

CONSTANTS
  Op,           \* opcodes a client asks for
  Capacity,     \* slots of the replay cache
  MaxRequests,  \* bound: requests of one connection
  MaxSlips,     \* bound: responses the client fails to read
  MaxDups,      \* bound: frames the network delivers again
  NoNonce,      \* an empty slot of the replay cache
  NoFrame,      \* nothing is being served
  Rest          \* the bytes of a response left behind by a failed read

ASSUME BoundsAssumption == MaxRequests \in Nat /\ MaxSlips \in Nat /\ MaxDups \in Nat
ASSUME RingAssumption == Capacity \in Nat \ {0} /\ NoNonce \notin Nat

\* RAND_bytes: every request draws a nonce of its own.
Nonce == 1 .. MaxRequests
Frame == [nonce : Nonce, op : Op]

ASSUME FrameAssumption == NoFrame \notin Frame /\ Rest \notin Frame

VARIABLES
  cpc,       \* client: "prompt", "wait" (for a response), "gone"
  asked,     \* the requests sent; the n-th has nonce n
  c2s, s2c,  \* frames under way in each direction
  spc,       \* server: "recv", "answer" (handled, not answered), "gone"
  serving,   \* the request being served
  entries, capacity, count, next_index, result,  \* the replay cache
  executed,  \* history: nonces of the requests handled, in order
  accepted,  \* history: nonces of the answers accepted, by nonce of the request
  slips, dups

clientVars == <<cpc, asked, accepted, slips>>
cacheVars == <<entries, capacity, count, next_index, result>>
serverVars == <<spc, serving, executed>>
vars == <<clientVars, c2s, s2c, serverVars, cacheVars, dups>>

Cache == INSTANCE Replay

EmptyRing == [i \in 0 .. Capacity - 1 |-> NoNonce]
NoAnswers == [n \in {} |-> 0]

\* The handshake is over, replay_init included.
Init ==
  /\ cpc = "prompt" /\ asked = <<>> /\ accepted = NoAnswers /\ slips = 0
  /\ c2s = <<>> /\ s2c = <<>> /\ dups = 0
  /\ spc = "recv" /\ serving = NoFrame /\ executed = <<>>
  /\ entries = EmptyRing /\ capacity = Capacity
  /\ count = 0 /\ next_index = 0 /\ result = 0

-----------------------------------------------------------------------------
(* The client.                                                             *)

ClientSend(op) ==
  /\ cpc = "prompt"
  /\ Len(asked) < MaxRequests
  /\ asked' = Append(asked, op)
  /\ c2s' = Append(c2s, [nonce |-> Len(asked) + 1, op |-> op])
  /\ cpc' = "wait"
  /\ UNCHANGED <<accepted, slips, s2c, serverVars, cacheVars, dups>>

\* The request the client waits on.
Current == Len(asked)

\* Mutant: any response is taken for the answer.
AnswersAny(f) == f # Rest

\* The only test that ties a response to a request is the opcode.
Answers(f) == f # Rest /\ f.op = asked[Current]

\* A response of another opcode is consumed, and the command has failed.
ClientReceive ==
  /\ cpc = "wait"
  /\ s2c # <<>> /\ Head(s2c) # Rest
  /\ s2c' = Tail(s2c)
  /\ cpc' = "prompt"
  /\ accepted' = IF Answers(Head(s2c))
                 THEN [n \in DOMAIN accepted \cup {Current} |->
                         IF n = Current THEN Head(s2c).nonce ELSE accepted[n]]
                 ELSE accepted
  /\ UNCHANGED <<asked, slips, c2s, serverVars, cacheVars, dups>>

\* A failing call: the response was read and is dropped (no memory for the
\* plaintext), it was not read at all (recv), or its header only (no memory for
\* the payload).  The command reports "request failed"; the connection stays.
ClientFails ==
  /\ cpc = "wait"
  /\ slips < MaxSlips
  /\ \/ s2c # <<>> /\ Head(s2c) # Rest /\ s2c' \in {Tail(s2c), <<Rest>> \o Tail(s2c)}
     \/ UNCHANGED s2c
  /\ slips' = slips + 1
  /\ cpc' = "prompt"
  /\ UNCHANGED <<asked, accepted, c2s, serverVars, cacheVars, dups>>

\* Bytes in the middle of a frame are no length a frame can have: the read fails
\* and leaves the rest, or comes to its end, or runs into the next frame.
ClientReadsRest ==
  /\ cpc = "wait"
  /\ s2c # <<>> /\ Head(s2c) = Rest
  /\ \/ s2c' \in {s2c, Tail(s2c)}
     \/ Len(s2c) > 1 /\ s2c' = <<Rest>> \o Tail(Tail(s2c))
  /\ cpc' = "prompt"
  /\ UNCHANGED <<asked, accepted, slips, c2s, serverVars, cacheVars, dups>>

\* Mutant: the end of the connection is read again and again.
ClientReadsOn == FALSE /\ UNCHANGED vars

\* The connection has ended.
ClientSeesEnd ==
  /\ cpc = "wait"
  /\ spc = "gone" /\ s2c = <<>>
  /\ cpc' = "prompt"
  /\ UNCHANGED <<asked, accepted, slips, c2s, s2c, serverVars, cacheVars, dups>>

\* quit, the end of the input, or a signal.
ClientLeaves ==
  /\ cpc # "gone"
  /\ cpc' = "gone"
  /\ UNCHANGED <<asked, accepted, slips, c2s, s2c, serverVars, cacheVars, dups>>

-----------------------------------------------------------------------------
(* The server loop.                                                        *)

\* The frame is decrypted and its request handled, whether the cache had its
\* nonce or not: only a result below zero ends the loop.
Handle(f) == spc' = "answer" /\ serving' = f

\* Mutant: the cache is asked after the nonce of the frame before.
CheckPrevious(f) == Cache!replay_check_and_add(IF f.nonce > 1 THEN f.nonce - 1 ELSE f.nonce)

CheckNonce(f) == Cache!replay_check_and_add(f.nonce)

ServerReceive ==
  /\ spc = "recv"
  /\ c2s # <<>>
  /\ c2s' = Tail(c2s)
  /\ CheckNonce(Head(c2s))
  /\ IF result' < 0
     THEN spc' = "gone" /\ UNCHANGED <<serving, executed>>
     ELSE /\ Handle(Head(c2s))
          /\ executed' = Append(executed, Head(c2s).nonce)
  /\ UNCHANGED <<clientVars, s2c, dups>>

\* Mutants: the loop goes on after a response that could not be sent; the frame
\* answered is not let go of.
RespondOrGoOn ==
  /\ spc = "answer"
  /\ s2c' \in {s2c, Append(s2c, serving)}
  /\ spc' = "recv"
  /\ serving' = NoFrame
  /\ UNCHANGED <<clientVars, c2s, executed, cacheVars, dups>>

RespondAndKeep ==
  /\ spc = "answer"
  /\ s2c' = Append(s2c, serving)
  /\ spc' = "recv"
  /\ UNCHANGED <<clientVars, c2s, serving, executed, cacheVars, dups>>

\* The response carries the nonce and the opcode of its request.
ServerRespond ==
  /\ spc = "answer"
  /\ s2c' = Append(s2c, serving)
  /\ spc' = "recv"
  /\ serving' = NoFrame
  /\ UNCHANGED <<clientVars, c2s, executed, cacheVars, dups>>

\* A failing call or a signal ends the loop, and the process.
ServerFails ==
  /\ spc # "gone"
  /\ spc' = "gone"
  /\ serving' = NoFrame
  /\ UNCHANGED <<clientVars, c2s, s2c, executed, cacheVars, dups>>

ServerSeesEnd ==
  /\ spc = "recv"
  /\ cpc = "gone" /\ c2s = <<>>
  /\ spc' = "gone"
  /\ UNCHANGED <<clientVars, c2s, s2c, serving, executed, cacheVars, dups>>

-----------------------------------------------------------------------------

\* The network delivers a frame again that the client sent before.
Duplicate ==
  /\ dups < MaxDups
  /\ \E n \in 1 .. Len(asked) : c2s' = Append(c2s, [nonce |-> n, op |-> asked[n]])
  /\ dups' = dups + 1
  /\ UNCHANGED <<clientVars, s2c, serverVars, cacheVars>>

\* Another server process and another client, with keys of their own: nothing of
\* the old connection opens on the new one.
Reconnect ==
  /\ cpc = "gone" /\ spc = "gone"
  /\ cpc' = "prompt" /\ asked' = <<>> /\ accepted' = NoAnswers /\ slips' = 0
  /\ c2s' = <<>> /\ s2c' = <<>> /\ dups' = 0
  /\ spc' = "recv" /\ serving' = NoFrame /\ executed' = <<>>
  /\ entries' = EmptyRing /\ capacity' = Capacity
  /\ count' = 0 /\ next_index' = 0 /\ result' = 0

ClientNext ==
  \/ \E op \in Op : ClientSend(op)
  \/ ClientReceive \/ ClientFails \/ ClientReadsRest \/ ClientSeesEnd \/ ClientLeaves

ServerNext == ServerReceive \/ ServerRespond \/ ServerFails \/ ServerSeesEnd

Next == ClientNext \/ ServerNext \/ Duplicate \/ Reconnect

Spec == Init /\ [][Next]_vars

\* A read returns once there is a frame or the end of the connection to read, and
\* a server handles and answers what it has read.  Nobody has to type a command,
\* and a read of leftover bytes may wait for bytes that never come.
Fairness ==
  /\ WF_vars(ClientReceive)
  /\ WF_vars(ClientSeesEnd)
  /\ WF_vars(ServerReceive)
  /\ WF_vars(ServerRespond)
  /\ WF_vars(ServerSeesEnd)

FairSpec == Spec /\ Fairness

-----------------------------------------------------------------------------

\* The types of every variable, and when a server has something to answer.
TypeOK ==
  /\ cpc \in {"prompt", "wait", "gone"}
  /\ asked \in Seq(Op) /\ Len(asked) <= MaxRequests
  /\ c2s \in Seq(Frame) /\ s2c \in Seq(Frame \cup {Rest})
  /\ spc \in {"recv", "answer", "gone"}
  /\ serving \in Frame \cup {NoFrame}
  /\ spc = "answer" <=> serving # NoFrame
  /\ executed \in Seq(Nonce)
  /\ DOMAIN accepted \subseteq 1 .. Len(asked)
  /\ \A n \in DOMAIN accepted : accepted[n] \in Nonce
  /\ slips \in 0 .. MaxSlips /\ dups \in 0 .. MaxDups

\* The requests that are still to be answered, from the oldest to the newest.
Pending == s2c \o (IF serving = NoFrame THEN <<>> ELSE <<serving>>) \o c2s

\* On a connection that repeats nothing, what the client has not read yet are
\* the answers to its latest requests, in order and without a gap: a client that
\* waits is behind by the commands that failed and by no more.
BehindByFailures ==
  dups = 0 /\ spc # "gone" =>
    /\ \A i \in 1 .. Len(Pending) :
         Pending[i] # Rest => Pending[i].nonce = Len(asked) - Len(Pending) + i
    /\ Len(Pending) <= Len(asked) - Cardinality(DOMAIN accepted)
    /\ cpc = "wait" => Pending # <<>>

\* The answer accepted for a request is the answer to a request with the same
\* opcode that the server did handle, not a later one, and with nothing repeated
\* and no read failed it is the answer to that very request.
AcceptedAnswers ==
  \A n \in DOMAIN accepted :
    /\ accepted[n] <= n
    /\ asked[accepted[n]] = asked[n]
    /\ \E i \in 1 .. Len(executed) : executed[i] = accepted[n]
    /\ slips = 0 /\ dups = 0 => accepted[n] = n

Handled == {executed[i] : i \in 1 .. Len(executed)}

\* The cache tells the loop the truth about the frame it is about to handle: a
\* nonce is reported as seen only if it was handled before, and one that was
\* handled is reported as fresh only after Capacity others have pushed it out.
CacheNotices ==
  [][Len(executed') > Len(executed) =>
       LET n == executed'[Len(executed')] IN
         /\ result' = 0 => n \in Handled
         /\ n \in Handled /\ result' = 1 => Cardinality(Handled \ {n}) >= capacity]_vars

\* No request is handled twice.  README.md:60: "Replay protection is unchanged
\* and still binds each frame to a unique request nonce."
ExecutedOnce == \A i, j \in 1 .. Len(executed) : executed[i] = executed[j] => i = j

\* A command ends: its answer comes, a call fails or the connection does, unless
\* what is left of an answer read in part stands in the way.  A server whose
\* client has left ends, and frees the port for the next one.
NobodyStuck ==
  /\ cpc = "wait" ~> (cpc # "wait" \/ \E i \in 1 .. Len(s2c) : s2c[i] = Rest)
  /\ cpc = "gone" ~> spc = "gone"

=============================================================================
