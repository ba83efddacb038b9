-------------------------- MODULE MCBenchController --------------------------
(***************************************************************************)
(* Model checking of BenchController.  Its constants are numbers and sets  *)
(* of strings, which the configurations name themselves.                   *)
(***************************************************************************)
EXTENDS BenchController
=============================================================================
