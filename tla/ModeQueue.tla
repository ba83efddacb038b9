------------------------------ MODULE ModeQueue ------------------------------
(***************************************************************************)
(* What a motion endpoint promises about its mode and its queue, whatever  *)
(* the wire protocol in front of it looks like: jobs leave in the order in *)
(* which they came, the queue never exceeds its depth, a mode is left only *)
(* for a mode the policy table allows, and no queued job survives a change *)
(* of mode.  OpenSpecV3Host implements this specification (module Host),   *)
(* and so do the endpoints that embed it.                                  *)
(***************************************************************************)
EXTENDS Naturals, Sequences

CONSTANTS Jobs,           (* the (lane, trigger_mm) pairs a queue can hold *)
          MaxQueueDepth   (* OpenSpecV3Host.max_queue_depth                *)

VARIABLES mode, queue

mqVars == <<mode, queue>>

Modes == {"AUTO", "MANUAL", "SAFE"}

\* MODE_TRANSITIONS of protocol/policy.py: SAFE is left through MANUAL only.
ModeTransitions ==
  [m \in Modes |-> IF m = "SAFE" THEN {"SAFE", "MANUAL"} ELSE Modes]

TransitionAllowed(from, to) == to \in ModeTransitions[from]

MQInit == /\ mode \in Modes
          /\ queue = <<>>

\* One job is admitted at the tail while there is room.
Admit(job) == /\ Len(queue) < MaxQueueDepth
              /\ queue' = Append(queue, job)
              /\ UNCHANGED mode

\* The first n jobs leave the queue: n = Len(queue) is a reset.
Drain(n) == /\ queue' = SubSeq(queue, n + 1, Len(queue))
            /\ UNCHANGED mode

\* The mode changes along the policy, and takes every queued job with it.
ChangeMode(m) == /\ m # mode
                 /\ TransitionAllowed(mode, m)
                 /\ mode' = m
                 /\ queue' = <<>>

MQNext == \/ \E job \in Jobs : Admit(job)
          \/ \E n \in 1..Len(queue) : Drain(n)
          \/ \E m \in Modes : ChangeMode(m)

MQSpec == MQInit /\ [][MQNext]_mqVars
=============================================================================
