---------------------------- MODULE MockTransport ----------------------------
(***************************************************************************)
(* MockMcuTransport (bench/mock_transport.py): the transport of the bench  *)
(* without hardware.  It owns a host endpoint (module Host), hands it      *)
(* frames under ids of its own, keeps a copy of its queue and a fault      *)
(* state, and step_queue() takes jobs out of the host's queue behind the   *)
(* host's back.                                                            *)
(***************************************************************************)
EXTENDS Host

CONSTANTS
  MaxIds,           (* bound: message ids handed out                        *)
  ConfiguredFaults, (* fault states the owner constructs the mock with      *)
  WrittenFaults     (* fault states the owner writes later                  *)

FaultStates == {"NORMAL", "SAFE", "WATCHDOG"}

ASSUME MockAssumption ==
  /\ MaxIds \in Nat \ {0, 1}
  /\ 1..MaxIds \subseteq MsgIds
  /\ ConfiguredFaults \cup WrittenFaults \subseteq FaultStates

VARIABLES
  fault,         \* fault_state, a public field
  mirror,        \* queue, the copy of the host's queue
  lastCleared,   \* _last_queue_cleared
  nextId,        \* _next_msg_id
  response       \* ack_code of the last send()

ownVars  == <<fault, mirror, lastCleared, nextId, response>>
mockVars == <<hostVars, ownVars>>

\* The endpoint's answers to the frames of __post_init__.
HandshakeAnswer(i) == AckFor(i, "AUTO", <<>>, FALSE, IF i = 1 THEN "SYNCING" ELSE "READY")

\* __post_init__: HELLO and HEARTBEAT under ids 1 and 2; the fault state the
\* owner configured outlives them.
MockInit ==
  /\ mode = "AUTO" /\ queue = <<>> /\ schedulerState = "IDLE"
  /\ linkState = "READY" /\ synced = TRUE /\ heartbeatAge = 0 /\ busy = FALSE
  /\ capabilities = SupportedCapabilities
  /\ recentIds = IF DedupeCacheSize = 1 THEN <<2>> ELSE <<1, 2>>
  /\ recentResults =
       [i \in {recentIds[k] : k \in 1..Len(recentIds)} |-> HandshakeAnswer(i)]
  /\ reply = HandshakeAnswer(2)
  /\ fault \in ConfiguredFaults
  /\ mirror = <<>> /\ lastCleared = FALSE /\ nextId = 3 /\ response = "NONE"

-----------------------------------------------------------------------------
\* Mutants: the copy is not refreshed; the newest jobs are consumed.
KeepCopy == UNCHANGED mirror
RestWithoutNewest(consume) == SubSeq(queue, 1, Len(queue) - consume)

RefreshCopy == mirror' = queue'

\* send_command: one frame, answered at once; a NACK has no mode, so it
\* ends a SAFE fault state like any answer of a host that is not in SAFE.
Command(cmd, arg) ==
  /\ nextId <= MaxIds
  /\ HandleRequest([id |-> nextId, cmd |-> cmd, flaw |-> "none", arg |-> arg])
  /\ nextId' = nextId + 1
  /\ RefreshCopy
  /\ lastCleared' = (reply'.status = "ACK" /\ reply'.cleared)
  /\ fault' = IF reply'.status = "ACK" /\ reply'.mode = "SAFE" THEN "SAFE"
              ELSE IF fault = "WATCHDOG" THEN fault ELSE "NORMAL"

SendCommand ==
  /\ \/ \E m \in Modes : Command("SET_MODE", m)
     \/ \E cmd \in {"HEARTBEAT", "GET_STATE", "RESET_QUEUE"} : Command(cmd, NoArg)
  /\ UNCHANGED response

\* send: refused on a fault without asking the host.
AckCodeOf(answer) ==
  IF answer.status = "ACK" THEN "ACK"
  ELSE IF answer.code = QueueFull THEN "NACK_QUEUE_FULL"
  ELSE IF answer.code = Busy THEN "NACK_BUSY"
  ELSE "NACK_SAFE"

SendRefused ==
  /\ fault \in {"SAFE", "WATCHDOG"}
  /\ response' = IF fault = "SAFE" THEN "NACK_SAFE" ELSE "NACK_WATCHDOG"
  /\ lastCleared' = FALSE
  /\ UNCHANGED <<hostVars, fault, mirror, nextId>>

SendSched(job) ==
  /\ fault = "NORMAL"
  /\ Command("SCHED", job)
  /\ response' = AckCodeOf(reply')

ClearedBy(consume, rest) == consume > 0 /\ rest = <<>>
RestAfter(consume) == SubSeq(queue, consume + 1, Len(queue))

\* step_queue: jobs leave the host's queue, and scheduler_state with them.
StepQueue(items) ==
  LET consume == IF items < Len(queue) THEN items ELSE Len(queue)
      rest    == RestAfter(consume)
  IN /\ SetQueue(rest)
     /\ RefreshCopy
     /\ lastCleared' = ClearedBy(consume, rest)
     /\ UNCHANGED <<mode, linkState, linkVars, busy, cacheVars, reply,
                    fault, nextId, response>>

\* The owner writes fault_state.
WriteFault(f) == /\ fault' = f
                 /\ UNCHANGED <<hostVars, mirror, lastCleared, nextId, response>>

MockTick == Tick /\ UNCHANGED ownVars

MockNext ==
  \/ SendCommand
  \/ SendRefused
  \/ \E job \in Jobs : SendSched(job)
  \/ \E items \in 0..MaxQueueDepth : StepQueue(items)
  \/ \E f \in WrittenFaults : WriteFault(f)
  \/ MockTick

MockSpec == MockInit /\ [][MockNext]_mockVars

-----------------------------------------------------------------------------
\* The endpoint's fields and the mock's own have their types.
MockTypeOK ==
  /\ HostTypeOK
  /\ fault \in FaultStates
  /\ lastCleared \in BOOLEAN
  /\ response \in {"NONE", "ACK", "NACK_QUEUE_FULL", "NACK_BUSY", "NACK_SAFE", "NACK_WATCHDOG"}

\* The copy of the queue is the host's queue after every call, and what
\* step_queue does to the host's fields keeps the host's own invariants.
CopyIsCurrent == MockTypeOK /\ mirror = queue /\ QueueCoherent

\* The endpoint behind the mock still keeps the promise of the abstract one,
\* with step_queue as its drain.
MockRefinesModeQueue == MQ!MQSpec
=============================================================================
