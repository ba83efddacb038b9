--------------------------- MODULE MCLineProtocol ---------------------------
(***************************************************************************)
(* Small instance of LineProtocol for TLC: a ring shorter than two lines,  *)
(* one line longer than the line buffer, one position too large for an     *)
(* int32_t, and digits that tell from which line they come.                *)
(***************************************************************************)
EXTENDS LineProtocol

MCDigits == {"1", "2", "3"}
MCBytes  == {"SCHED", "CLEAR_SAFE", "NL", "CR"} \cup MCDigits
MCLines  == {<<"SCHED", "1", "2">>, <<"SCHED", "3">>, <<"SCHED", "3", "3", "3">>,
             <<"SCHED", "3", "3", "3", "3">>,
             <<"CLEAR_SAFE", "CR">>, <<>>}
=============================================================================
