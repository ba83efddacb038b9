--------------------------- MODULE MCMockTransport ---------------------------
(***************************************************************************)
(* Small instance of MockTransport for TLC: a queue of two jobs that can   *)
(* be told apart, and more ids than the dedupe cache holds.                *)
(***************************************************************************)
EXTENDS MockTransport

MCMsgIds      == 1..MaxIds
MCOfferedSets == {{"SCHED"}}
MCSupported   == {"SCHED"}
=============================================================================
