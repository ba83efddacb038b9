---------------------------- MODULE MCSerialLink ----------------------------
(***************************************************************************)
(* Small instances of SerialLink for TLC.  Message ids are the integers    *)
(* that _reserve_msg_id hands out; a call writes at most six frames of its *)
(* own and each of the re-handshakes adds to them.                         *)
(***************************************************************************)
EXTENDS SerialLink

MCMsgIds      == 1..(9 * MaxCalls)
MCJobs        == 1..MaxCalls
MCOfferedSets == {{"SCHED"}}
MCSupported   == {"SCHED"}
=============================================================================
