----------------------------- MODULE MCThrottle -----------------------------
(* Throttle for TLC: a border between two plots at the origin. *)
EXTENDS Throttle

\* Half a block west of it, half a block and a block and a half east of it.
Halves == {-1, 1, 3}
SomeBlocks == {-1, 0}
PlotOfBlock(x) == IF x < 0 THEN "west" ELSE "east"
=============================================================================
