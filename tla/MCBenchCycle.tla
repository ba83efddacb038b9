---------------------------- MODULE MCBenchCycle ----------------------------
(***************************************************************************)
(* Model checking of BenchCycle: frames with a reject in a lane and an     *)
(* accepted object, and frames with an object outside the lanes and a      *)
(* reject beyond the reach of a command.                                   *)
(***************************************************************************)
EXTENDS BenchCycle

Seen(object, lane, score, far, label) ==
  [object |-> object, lane |-> lane, score |-> score, far |-> far, label |-> label]

MCScenes ==
  {<<Seen("a", 3, 2, FALSE, "accept"), Seen("b", 4, 1, FALSE, "accept")>>,
   <<Seen("a", NoLane, 2, FALSE, "accept"), Seen("b", 4, 1, TRUE, "reject")>>}

MCShots ==
  {[width |-> 101, fault |-> FALSE], [width |-> 101, fault |-> TRUE], [width |-> 97, fault |-> FALSE]}
=============================================================================
