----------------------------- MODULE MCEventHeap -----------------------------
(***************************************************************************)
(* Small instance of EventHeap for TLC: six places, so that a pop sinks    *)
(* over two levels, seven events, so that a push meets a full array, and   *)
(* four ticks, so that equal ticks meet in every position.                 *)
(***************************************************************************)
EXTENDS EventHeap, TLC

CONSTANTS e1, e2, e3, e4, e5, e6, e7

MCIds    == {e1, e2, e3, e4, e5, e6, e7}
MCTicks  == -1..2
Symmetry == Permutations(MCIds)
=============================================================================
