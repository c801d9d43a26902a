---------------------------- MODULE BoundedQueue ----------------------------
(***************************************************************************)
(* What the software FIFO promises its two users: a queue of at most       *)
(* Capacity values, in which nothing is lost, duplicated, reordered or     *)
(* made up.                                                                *)
(***************************************************************************)
EXTENDS Naturals, Sequences

CONSTANTS Val, Capacity

VARIABLES queue,   \* the values between the two users
          taken    \* the values the reader took last: at most one

Init == queue = <<>> /\ taken = <<>>

Put(v) ==
    /\ Len(queue) < Capacity
    /\ queue' = Append(queue, v)
    /\ UNCHANGED taken

Take ==
    /\ queue # <<>>
    /\ taken' = <<Head(queue)>>
    /\ queue' = Tail(queue)

Next == Take \/ \E v \in Val : Put(v)

Spec == Init /\ [][Next]_<<queue, taken>>

=============================================================================
