---------------------------- MODULE ReplayWindow ----------------------------
(***************************************************************************)
(* What common/replay.h promises: a nonce is "already seen" exactly when   *)
(* it is one of the last Capacity fresh nonces, which are forgotten oldest *)
(* first.  Nothing is said of slots, counts or indices; Replay implements  *)
(* this specification.                                                     *)
(***************************************************************************)
EXTENDS Integers, Sequences

CONSTANTS Nonce, Capacity

VARIABLES
  open,    \* is the cache allocated?
  window,  \* the remembered nonces, oldest first
  result   \* what the last check returned: 1 fresh, 0 seen, -1 error

Init == open = FALSE /\ window = <<>> /\ result = 0

Open ==
  /\ ~open
  /\ open' = TRUE
  /\ window' = <<>>
  /\ UNCHANGED result

Close ==
  /\ open
  /\ open' = FALSE
  /\ window' = <<>>
  /\ UNCHANGED result

Remembered(n) == \E i \in DOMAIN window : window[i] = n

Slide(n) ==
  IF Len(window) < Capacity
  THEN Append(window, n)
  ELSE Append(Tail(window), n)

Check(n) ==
  \/ /\ ~open
     /\ result' = -1
     /\ UNCHANGED <<open, window>>
  \/ /\ open
     /\ Remembered(n)
     /\ result' = 0
     /\ UNCHANGED <<open, window>>
  \/ /\ open
     /\ ~Remembered(n)
     /\ result' = 1
     /\ window' = Slide(n)
     /\ UNCHANGED open

Next == Open \/ Close \/ \E n \in Nonce : Check(n)

Spec == Init /\ [][Next]_<<open, window, result>>

=============================================================================
