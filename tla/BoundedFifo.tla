----------------------------- MODULE BoundedFifo -----------------------------
(***************************************************************************)
(* What the byte ring between the receiver and process() promises: a       *)
(* bounded first-in first-out channel that refuses what does not fit and   *)
(* loses, reorders or repeats nothing it took.                             *)
(***************************************************************************)
EXTENDS Naturals, Sequences

CONSTANTS Values, Capacity

VARIABLE channel

Put(v) == /\ Len(channel) < Capacity
          /\ channel' = Append(channel, v)

Get == /\ channel # <<>>
       /\ channel' = Tail(channel)

FifoInit == channel = <<>>
FifoNext == (\E v \in Values : Put(v)) \/ Get
FifoSpec == FifoInit /\ [][FifoNext]_channel
=============================================================================
