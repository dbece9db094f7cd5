---------------------------- MODULE LossyStream ----------------------------
(***************************************************************************)
(* What a receive stream promises its reader: packets come in the order    *)
(* the device made them; some may be missing, but the time reported with a *)
(* packet (counted here in packets) is the time the device made it, so     *)
(* every gap is known exactly.                                             *)
(***************************************************************************)
EXTENDS Integers

VARIABLES made,    \* packets the device has produced so far
          last,    \* number of the packet handed out last, -1 for none
          next     \* time the reader expects the following packet to have

Init == made = 0 /\ last = -1 /\ next = 0

Make == made' = made + 1 /\ UNCHANGED <<last, next>>

Deliver ==
    \E n \in next..made-1 :
        /\ last' = n
        /\ next' = n + 1
        /\ UNCHANGED made

Next == Make \/ Deliver

Spec == Init /\ [][Next]_<<made, last, next>>
=============================================================================
