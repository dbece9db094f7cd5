---------------------------- MODULE BoundedFifo ----------------------------
(***************************************************************************)
(* What a single-producer, single-consumer buffer promises: a queue of at  *)
(* most Capacity packets, numbered in the order they were put, taken out   *)
(* in that order.                                                          *)
(***************************************************************************)
EXTENDS Integers, Sequences

CONSTANT Capacity

VARIABLES q, put, taken

Init == q = << >> /\ put = 0 /\ taken = 0

Put ==
    /\ Len(q) < Capacity
    /\ put' = put + 1
    /\ q' = Append(q, put')
    /\ UNCHANGED taken

Take ==
    /\ q # << >>
    /\ Head(q) = taken + 1
    /\ taken' = taken + 1
    /\ q' = Tail(q)
    /\ UNCHANGED put

Next == Put \/ Take

Spec == Init /\ [][Next]_<<q, put, taken>>
=============================================================================
