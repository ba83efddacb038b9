---------------------------- MODULE PriorityQueue ----------------------------
(***************************************************************************)
(* What the firmware's event queue promises: a bounded collection of       *)
(* events from which the only way out, short of clearing it, is the        *)
(* removal of an event with the least trigger tick.  Nothing is said of    *)
(* the order of events with equal ticks.                                   *)
(***************************************************************************)
EXTENDS Integers, FiniteSets

CONSTANTS Events,         (* records with a field trigger_tick *)
          QueueCapacity   (* QUEUE_CAPACITY                    *)

VARIABLE pending

Insert(e) == /\ e \notin pending
             /\ Cardinality(pending) < QueueCapacity
             /\ pending' = pending \cup {e}

RemoveEarliest ==
  \E e \in pending :
    /\ \A f \in pending : e.trigger_tick <= f.trigger_tick
    /\ pending' = pending \ {e}

Empty == pending' = {}

PQInit == pending = {}

PQNext == (\E e \in Events : Insert(e)) \/ RemoveEarliest \/ Empty

PQSpec == PQInit /\ [][PQNext]_pending
=============================================================================
