-------------------------- MODULE MCRingSession --------------------------
(***************************************************************************)
(* Three rings. Memory is counted in units of a ring's share; addresses    *)
(* start at 1, as 0 stands for no memory. The sessions: all ranges apart;  *)
(* the two slave rings with the same system memory; a slave ring with the  *)
(* master's; DDR ranges that overlap; DDR for one slave ring only, or of a *)
(* size that SCRATCH cannot hold; and the config edited after the attach.  *)
(***************************************************************************)
EXTENDS RingSession

A(lo, size) == [lo |-> lo, size |-> size]
Make(s0, s1, s2, d0, d1, d2, m, e) ==
    [sys |-> [r \in 0 .. 2 |-> CASE r = 0 -> s0 [] r = 1 -> s1 [] r = 2 -> s2],
     ddr |-> [r \in 0 .. 2 |-> CASE r = 0 -> d0 [] r = 1 -> d1 [] r = 2 -> d2],
     managers |-> m, edits |-> e]

MCSetups ==
    {Make(A(1, 2), A(3, 2), A(5, 2), NoArea, NoArea, NoArea, m, e) :
        m \in 0 .. 2, e \in BOOLEAN}
    \cup {Make(A(1, 2), A(3, 2), A(4, 2), NoArea, NoArea, NoArea, 0, FALSE),
          Make(A(1, 2), A(2, 2), A(5, 2), A(1, 2), NoArea, NoArea, 0, FALSE),
          Make(A(1, 2), A(3, 2), A(5, 2), A(1, 2), A(4, 2), A(3, 2), 0, FALSE),
          Make(A(1, 2), A(3, 2), A(5, 2), NoArea, A(3, 2), NoArea, 0, FALSE),
          Make(A(1, 2), A(3, 2), A(5, 2), A(1, 9), A(3, 2), NoArea, 0, FALSE)}
MCGarbage == {0, 4}
===========================================================================
