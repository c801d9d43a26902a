-------------------------- MODULE MCDriverMemory --------------------------
(***************************************************************************)
(* Two devices, batches of six pages, chunks of two pages and more, five   *)
(* pages wanted. The sets of free pages: one that fills the page table     *)
(* exactly; runs as large as what is wanted and larger; runs of two        *)
(* (enough of them for every device, one more, too few); single pages.     *)
(* Pages 1 and 14 are too far apart to be sorted properly in one batch.    *)
(* The regions start on a page boundary and at every other place in a      *)
(* page.                                                                   *)
(***************************************************************************)
EXTENDS DriverMemory

MCFreeSets ==
    {1 .. 6, 1 .. 7, 1 .. 8, 1 .. 5 \cup 7 .. 8,
     {1, 2, 4, 5, 7, 8, 10, 11, 13, 14}, {1, 2, 4, 5, 7, 8, 10, 11},
     {1, 2, 4, 5, 7}, {1, 3, 5}}
MCRegions == {[base |-> b, size |-> s] : b \in 4 .. 7, s \in {7, 24, 31}}
===========================================================================
