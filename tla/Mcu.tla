--------------------------------- MODULE Mcu ---------------------------------
(***************************************************************************)
(* The MCU firmware (firmware/mcu/src): the scheduler, the SAFE latch, the *)
(* encoder, the command dispatcher and the dispatch step of the main loop, *)
(* around one event queue (module EventHeap).                              *)
(*                                                                         *)
(* The two ways into the queue differ: scheduler_schedule refuses in SAFE, *)
(* checks the lane and converts to encoder ticks; scheduler_enqueue, which *)
(* fw_dispatch_command calls, does none of it.                             *)
(*                                                                         *)
(* Jobs are numbered as they are accepted; epochOf and fate record what    *)
(* became of each (history variables).                                     *)
(***************************************************************************)
EXTENDS EventHeap

CONSTANTS
  LaneComp,        (* k_lane_comp_ticks, a function of the lanes served       *)
  TicksPerMm,      (* FW_ENCODER_TICKS_PER_MM                                 *)
  MissTicks,       (* FW_DISPATCH_MISS_TICKS                                  *)
  HalfRange,       (* 2^31: a tick is in -HalfRange .. HalfRange - 1           *)
  DepthMax,        (* largest depth a uint8_t reports                         *)
  Positions,       (* positions asked for, in mm; a negative one is refused   *)
  SlotLanes,       (* lanes a SCHED slot names, not checked                   *)
  SlotPositions,   (* trigger_mm a SCHED slot names                           *)
  DispatchTicks,   (* ticks the dispatch step is called with; main.c: {0}     *)
  FaultReasons,    (* faults raised from outside, besides the queue overflow  *)
  MaxTravel,       (* bound: ticks the belt moves from where it was zeroed    *)
  MaxJobs,         (* bound: jobs accepted                                    *)
  MaxSafeEntries   (* bound: entries into SAFE                                *)

Lanes == DOMAIN LaneComp \cup SlotLanes

\* Ticks and ids are wide enough for what the two ways into the queue make.
ASSUME McuAssumption ==
  /\ HalfRange \in Nat \ {0} /\ -HalfRange..(HalfRange - 1) \subseteq Ticks
  /\ MaxJobs \in Nat /\ [job : 1..MaxJobs, lane : Lanes] \subseteq Ids
  /\ LaneComp \in [DOMAIN LaneComp -> Int] /\ TicksPerMm \in Int
  /\ Positions \cup SlotPositions \cup DispatchTicks \subseteq Int
  /\ DepthMax \in Nat /\ MaxTravel \in Nat

VARIABLES
  isSafe, lastFault, servosEnabled,   \* safety.c
  encoderTicks,
  runtime,                            \* fw_runtime_state_t
  response,                           \* status of the last response; its state
                                      \* is a copy of runtime
  result,                             \* of scheduler_dispatch_ready_slot
  pulse,                              \* actuator.c: the lane last pulsed
  jobs, epochOf, fate, epoch          \* history

safetyVars  == <<isSafe, lastFault, servosEnabled>>
commandVars == <<runtime, response>>
outputVars  == <<result, pulse>>
historyVars == <<jobs, epochOf, fate, epoch>>
mcuVars == <<heap, safetyVars, encoderTicks, commandVars, outputVars, historyVars>>

-----------------------------------------------------------------------------
Wrap(x) == ((x + HalfRange) % (2 * HalfRange)) - HalfRange

Faults  == {"NONE", "QUEUE_OVERFLOW"} \cup FaultReasons
Results == {"NONE", "EXECUTED", "MISSED_WINDOW", "SAFE_BLOCKED"}
Fates   == {"new", "queued", "executed", "missed", "dequeued", "flushed"}
FwModes == {"SAFE", "RUN", "SERVICE"}
NoLane  == -1

\* scheduler_depth saturates at what its return type holds.
Depth(h) == IF Len(h) > DepthMax THEN DepthMax ELSE Len(h)

Snapshot(h, link, m) ==
  [mode |-> m, link |-> link, queue_depth |-> Depth(h),
   scheduler |-> IF Depth(h) = 0 THEN "IDLE" ELSE "RUNNING"]

\* scheduler_should_trigger: the difference is taken in tick arithmetic.
Behind(current, target) == Wrap(current - target)
ShouldTrigger(current, target) == Behind(current, target) >= 0

-----------------------------------------------------------------------------
McuInit ==
  /\ HeapInit
  /\ isSafe = FALSE /\ lastFault = "NONE" /\ servosEnabled = TRUE
  /\ encoderTicks = 0
  /\ runtime = Snapshot(<<>>, "UP", "SAFE")   \* main() has processed its own HELLO
  /\ response = "NONE"
  /\ result = "NONE" /\ pulse = NoLane
  /\ jobs = 0 /\ epoch = 0
  /\ epochOf = [j \in 1..MaxJobs |-> 0]
  /\ fate = [j \in 1..MaxJobs |-> "new"]

\* A job enters the queue.
Accept(lane, tick) ==
  /\ jobs < MaxJobs
  /\ jobs' = jobs + 1
  /\ heap' = Pushed(heap, [id |-> [job |-> jobs + 1, lane |-> lane],
                           trigger_tick |-> Wrap(tick)])
  /\ epochOf' = [epochOf EXCEPT ![jobs + 1] = epoch]
  /\ fate' = [fate EXCEPT ![jobs + 1] = "queued"]
  /\ UNCHANGED epoch

\* Mutant: SAFE leaves the queue alone.
KeepQueue == UNCHANGED <<heap, fate>>

\* queue_clear, with the fate of what was queued.
ClearQueue ==
  /\ Clear
  /\ fate' = [j \in DOMAIN fate |-> IF fate[j] = "queued" THEN "flushed" ELSE fate[j]]

\* queue_pop of the root, which meets the fate f.
PopRoot(f) ==
  /\ Pop
  /\ fate' = [fate EXCEPT ![heap[1].id.job] = f]
  /\ UNCHANGED <<jobs, epochOf, epoch>>

-----------------------------------------------------------------------------
\* safety_enter_safe, called on a fault whatever the state.
EnterSafe(reason) ==
  /\ epoch < MaxSafeEntries
  /\ isSafe' = TRUE /\ lastFault' = reason /\ servosEnabled' = FALSE
  /\ ClearQueue
  /\ epoch' = epoch + 1
  /\ UNCHANGED <<jobs, epochOf>>

Fault(reason) ==
  /\ EnterSafe(reason)
  /\ UNCHANGED <<encoderTicks, commandVars, outputVars>>

ClearSafe ==
  /\ isSafe' = FALSE /\ lastFault' = "NONE" /\ servosEnabled' = TRUE
  /\ UNCHANGED <<heap, encoderTicks, commandVars, outputVars, historyVars>>

\* encoder_isr_on_tick and encoder_reset.
EncoderTick(direction) ==
  /\ encoderTicks' = Wrap(encoderTicks + direction)
  /\ encoderTicks' \in -MaxTravel..MaxTravel
  /\ UNCHANGED <<heap, safetyVars, commandVars, outputVars, historyVars>>

EncoderReset ==
  /\ encoderTicks' = 0
  /\ UNCHANGED <<heap, safetyVars, commandVars, outputVars, historyVars>>

-----------------------------------------------------------------------------
\* scheduler_schedule: what it refuses changes nothing; a full queue is a
\* fault, and the fault empties the queue.
Schedule(lane, position) ==
  /\ ~isSafe
  /\ lane \in DOMAIN LaneComp /\ position >= 0
  /\ \/ /\ Full(heap)
        /\ EnterSafe("QUEUE_OVERFLOW")
     \/ /\ ~Full(heap)
        /\ Accept(lane, encoderTicks + position * TicksPerMm + LaneComp[lane])
        /\ UNCHANGED safetyVars
  /\ UNCHANGED <<encoderTicks, commandVars, outputVars>>

\* scheduler_dequeue, the drain used instead of the dispatch step.
Dequeue ==
  /\ PopRoot("dequeued")
  /\ UNCHANGED <<safetyVars, encoderTicks, commandVars, outputVars>>

-----------------------------------------------------------------------------
\* One turn of main's loop: scheduler_dispatch_ready_slot with the tick the
\* caller takes for the current one, and the pulse when it executed a job.
RootIsReady(now) == heap # <<>> /\ ShouldTrigger(now, heap[1].trigger_tick)

Dispatch(now) ==
  /\ \/ /\ isSafe
        /\ result' = "SAFE_BLOCKED"
        /\ UNCHANGED <<heap, pulse, historyVars>>
     \/ /\ ~isSafe /\ ~RootIsReady(now)
        /\ result' = "NONE"
        /\ UNCHANGED <<heap, pulse, historyVars>>
     \/ /\ ~isSafe /\ RootIsReady(now)
        /\ Behind(now, heap[1].trigger_tick) > MissTicks
        /\ PopRoot("missed")
        /\ result' = "MISSED_WINDOW"
        /\ UNCHANGED pulse
     \/ /\ ~isSafe /\ RootIsReady(now)
        /\ Behind(now, heap[1].trigger_tick) <= MissTicks
        /\ PopRoot("executed")
        /\ result' = "EXECUTED"
        /\ pulse' = heap[1].id.lane
  /\ UNCHANGED <<safetyVars, encoderTicks, commandVars>>

-----------------------------------------------------------------------------
(* fw_dispatch_command, one action per command.                            *)

Respond(status, state) ==
  /\ runtime' = state
  /\ response' = status
  /\ UNCHANGED <<safetyVars, encoderTicks, outputVars>>

\* HELLO and HEARTBEAT report the depth of the last SCHED or GET_STATE.
CmdHello ==
  /\ Respond("OK", [runtime EXCEPT !.link = "UP"])
  /\ UNCHANGED <<heap, historyVars>>

CmdHeartbeat ==
  /\ Respond("OK", [runtime EXCEPT !.link = "UP"])
  /\ UNCHANGED <<heap, historyVars>>

\* Neither the SAFE latch nor the queue takes part in a mode change.
CmdSetMode ==
  /\ \/ \E m \in FwModes : Respond("OK", [runtime EXCEPT !.mode = m])
     \/ Respond("INVALID_MODE", runtime)
  /\ UNCHANGED <<heap, historyVars>>

\* The slot's trigger_mm becomes the trigger tick as it is.
CmdSched(lane, position) ==
  \/ /\ Full(heap)
     /\ Respond("QUEUE_FULL", Snapshot(heap, runtime.link, runtime.mode))
     /\ UNCHANGED <<heap, historyVars>>
  \/ /\ ~Full(heap)
     /\ Accept(lane, position)
     /\ Respond("OK", Snapshot(heap', runtime.link, runtime.mode))

CmdGetState ==
  /\ Respond("OK", Snapshot(heap, runtime.link, runtime.mode))
  /\ UNCHANGED <<heap, historyVars>>

CmdResetQueue ==
  /\ ClearQueue
  /\ Respond("OK", Snapshot(<<>>, runtime.link, runtime.mode))
  /\ UNCHANGED <<jobs, epochOf, epoch>>

CmdUnknown ==
  /\ Respond("INVALID_COMMAND", runtime)
  /\ UNCHANGED <<heap, historyVars>>

McuNext ==
  \/ \E reason \in FaultReasons : Fault(reason)
  \/ ClearSafe
  \/ \E direction \in {-1, 1} : EncoderTick(direction)
  \/ EncoderReset
  \/ \E lane \in DOMAIN LaneComp, position \in Positions : Schedule(lane, position)
  \/ Dequeue
  \/ \E now \in DispatchTicks : Dispatch(now)
  \/ CmdHello \/ CmdHeartbeat \/ CmdSetMode
  \/ \E lane \in SlotLanes, position \in SlotPositions : CmdSched(lane, position)
  \/ CmdGetState \/ CmdResetQueue \/ CmdUnknown

McuSpec == McuInit /\ [][McuNext]_mcuVars

-----------------------------------------------------------------------------
\* The values the firmware's variables range over.
McuTypeOK ==
  /\ HeapTypeOK
  /\ lastFault \in Faults /\ result \in Results
  /\ pulse \in {NoLane} \cup Lanes
  /\ runtime.mode \in FwModes /\ runtime.queue_depth \in 0..DepthMax
  /\ \A j \in 1..MaxJobs : fate[j] \in Fates

\* In every well-typed state, every accepted job has exactly one fate: the
\* queue holds just the jobs that have not been executed, missed, drained or
\* flushed, each once.
OneFatePerJob ==
  /\ McuTypeOK
  /\ {heap[i].id.job : i \in 1..Len(heap)} = {j \in 1..MaxJobs : fate[j] = "queued"}
  /\ \A i, k \in 1..Len(heap) : heap[i].id.job = heap[k].id.job => i = k

\* No job queued before an entry into SAFE is still queued after it, so none
\* is actuated after the latch is cleared.
SafeFlushesEverything ==
  \A j \in 1..MaxJobs : fate[j] = "queued" => epochOf[j] = epoch

\* A job is actuated only outside SAFE with the servos enabled, and never
\* ahead of a queued job with an earlier trigger tick.
ActuationIsSound ==
  [][\A i \in 1..Len(heap) :
       fate'[heap[i].id.job] = "executed" =>
         /\ ~isSafe /\ servosEnabled
         /\ \A k \in 1..Len(heap) : ~Earlier(heap[k], heap[i])]_mcuVars

\* The dispatch step looks at the root only.  When the root is not due, no
\* queued job is, however deep in the heap it lies and whichever end of the
\* queue it came in by.
RootSpeaksForAll ==
  \A now \in DispatchTicks :
    ~RootIsReady(now) =>
      \A i \in 1..Len(heap) : ~ShouldTrigger(now, heap[i].trigger_tick)
=============================================================================
