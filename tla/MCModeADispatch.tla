-------------------------- MODULE MCModeADispatch --------------------------
(* Instances of ModeADispatch: two samples of one cell, a second cell and   *)
(* the search-disabled twin of the first.                                   *)
EXTENDS ModeADispatch, TLC

CONSTANTS s1, s2, p1, d1, cellS, cellP, cellD

Keyed == (s1 :> cellS @@ s2 :> cellS @@ p1 :> cellP @@ d1 :> cellD)
Estimates == (s1 :> 2 @@ s2 :> 2 @@ p1 :> 1 @@ d1 :> 1)

\* A sample costs less or more than estimated, the twin more.
Priced == (s1 :> {1} @@ s2 :> {3} @@ p1 :> {1} @@ d1 :> {2})

Whole == {Items}
\* The question of the second cell may be paused between two attempts.
Edited == {Items, Items \ {p1}}
=============================================================================
