--------------------------- MODULE MCStatefulFlow ---------------------------
(***************************************************************************)
(* Instances of StatefulFlow for TLC. The groups of one flow change twice, *)
(* so that jobs of three combinations follow each other; those of the      *)
(* other flow, which competes with it for jobs and for the rings, once.    *)
(***************************************************************************)
EXTENDS StatefulFlow

CONSTANTS f1, f2

MCCombinations == [f \in Flow |-> IF f = f1 THEN 2 ELSE 1]
=============================================================================
