------------------------------ MODULE MCLiveRun ------------------------------
(***************************************************************************)
(* Model checking of LiveRun: a bright picture with an object to reject    *)
(* and one that is too small, a dark one with an object to reject, and one *)
(* with an object beyond the reach of a command; profile files with a      *)
(* threshold between two percents, with a repeated name, with no profiles, *)
(* and one that is no YAML.                                                *)
(***************************************************************************)
EXTENDS LiveRun

Region(area, red, far) ==
  [area |-> area, lane |-> 3, red |-> red, inWindow |-> ~far, confidence |-> 60, far |-> far]

Picture(peak, base, share, regions) ==
  [peak |-> peak, base |-> base, share |-> share, regions |-> regions, width |-> 101,
   middle |-> [lane |-> 11, far |-> FALSE]]

MCPictures ==
  {Picture(200, 120, 10, <<Region(300, 255, FALSE), Region(50, 255, FALSE)>>),
   Picture(190, 20, 10, <<Region(300, 20, FALSE)>>),
   Picture(200, 125, 5, <<Region(300, 255, TRUE)>>)}

MCDefault == [rot |-> 70, length |-> 100]
Named(name) == [name |-> name, thresholds |-> [rot |-> 61, length |-> 100]]

MCLimits == {Unlimited, 2}

MCFiles ==
  {Missing, [kind |-> "broken"], Saved(<<>>, "gone"), Saved(<<Named("a"), Named("a")>>, "a"),
   Saved(<<Named("a"), Named("b")>>, "b")}
=============================================================================
