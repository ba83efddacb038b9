------------------------------- MODULE MCHost -------------------------------
(***************************************************************************)
(* Small instance of Host for TLC: a cache that is smaller than the set of *)
(* ids in use, so that ids are evicted and come back, and a queue that     *)
(* fills up with jobs that can be told apart.  The host treats ids and     *)
(* jobs alike, so both sets are symmetric.                                 *)
(***************************************************************************)
EXTENDS Host, TLC

CONSTANTS m1, m2, m3, j1, j2, sched, dedupe, exotic

MCMsgIds       == {m1, m2, m3}
MCJobs         == {j1, j2}
MCOfferedSets  == {{sched, exotic}}
MCSupported    == {sched, dedupe}
Symmetry       == Permutations(MCMsgIds) \cup Permutations(MCJobs)
=============================================================================
