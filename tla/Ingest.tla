------------------------------- MODULE Ingest -------------------------------
(***************************************************************************)
(* The ingest boundary (src/coloursorter/ingest): the payload adapter's    *)
(* validation, the monotonic frame id policy and the bounded queue.        *)
(*                                                                         *)
(* A payload is a frame and the flaw the contract would find in it; every  *)
(* flaw is the same exception and changes nothing.                         *)
(***************************************************************************)
EXTENDS Integers, Sequences

CONSTANTS Capacity,   (* capacity of the queue                             *)
          DropPolicy  (* DeterministicDropPolicy                           *)

ASSUME IngestAssumption ==
  /\ Capacity \in Nat \ {0}
  /\ DropPolicy \in {"DROP_OLDEST", "DROP_NEWEST"}

VARIABLES queue, lastFrameId
ingestVars == <<queue, lastFrameId>>

Unseen == -1

IngestInit == queue = <<>> /\ lastFrameId = Unseen

\* IngestPayloadAdapter.adapt: types, shapes and optional fields, then the
\* order of the two timestamps.
Valid(payload) ==
  /\ payload.flaw = "none"
  /\ payload.id >= 0 /\ payload.timestamp >= 0
  /\ payload.previous >= 0 /\ payload.previous <= payload.timestamp

\* BoundedFifoQueue.push.
Push(item) ==
  CASE Len(queue) < Capacity -> Append(queue, item)
    [] Len(queue) >= Capacity /\ DropPolicy = "DROP_OLDEST" -> Append(Tail(queue), item)
    [] Len(queue) >= Capacity /\ DropPolicy = "DROP_NEWEST" -> queue

Accepts(payload) == Valid(payload) /\ payload.id > lastFrameId

\* IngestBoundary.submit: the policy has taken the id even when the queue
\* then drops the frame.
Submit(payload) ==
  /\ Accepts(payload)
  /\ lastFrameId' = payload.id
  /\ queue' = Push(payload)

\* A payload that is refused raises.
Refuse(payload) == ~Accepts(payload) /\ UNCHANGED ingestVars

NextCycleInput == queue # <<>> /\ queue' = Tail(queue) /\ UNCHANGED lastFrameId

-----------------------------------------------------------------------------
\* The boundary on its own, for every payload.
Payloads == [id : Int, timestamp : Int, previous : Int, flaw : {"none", "contract"}]

IngestNext == (\E p \in Payloads : Submit(p)) \/ NextCycleInput

IngestSpec == IngestInit /\ [][IngestNext]_ingestVars

\* The queue keeps its capacity, and frames wait in the order of their ids,
\* none later than the last id taken.
QueueInOrder ==
  /\ Len(queue) <= Capacity
  /\ \A i \in 1..Len(queue) : Valid(queue[i]) /\ queue[i].id <= lastFrameId
  /\ \A i, j \in 1..Len(queue) : i < j => queue[i].id < queue[j].id
=============================================================================
