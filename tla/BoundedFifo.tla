----------------------------- MODULE BoundedFifo -----------------------------
(***************************************************************************)
(* What a serial buffer promises to its two ends: a first-in first-out     *)
(* queue of at most Capacity bytes, in which nothing is lost, repeated or  *)
(* reordered.                                                              *)
(***************************************************************************)
EXTENDS Naturals, Sequences

CONSTANTS Byte, Zero, Capacity

VARIABLES
  queue,  \* the bytes inside, oldest first
  taken   \* the byte taken last, Zero before the first

Init == queue = << >> /\ taken = Zero

Put(b) ==
  /\ Len(queue) < Capacity
  /\ queue' = Append(queue, b)
  /\ UNCHANGED taken

Take ==
  /\ queue # << >>
  /\ taken' = Head(queue)
  /\ queue' = Tail(queue)

Next == Take \/ \E b \in Byte : Put(b)

Spec == Init /\ [][Next]_<<queue, taken>>
=============================================================================
