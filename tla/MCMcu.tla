-------------------------------- MODULE MCMcu --------------------------------
(***************************************************************************)
(* Small instances of Mcu for TLC: two lanes with different compensation,  *)
(* one lane number the firmware does not serve, a queue of three places    *)
(* and ticks wide enough that none of the modelled sums wraps.             *)
(***************************************************************************)
EXTENDS Mcu

MCLaneComp  == [lane \in 0..1 |-> lane]
MCIds       == [job : 1..MaxJobs, lane : {0, 1, 9}]
MCTicks     == -HalfRange..(HalfRange - 1)
MCPositions == {-1, 0, 1}
=============================================================================
