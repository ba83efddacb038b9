--------------------------- MODULE BenchController ---------------------------
(***************************************************************************)
(* The bench operator application (gui/bench_app/controller.py): the       *)
(* controller's state machine and operator actions on the UI thread, the   *)
(* frame worker and the transport worker, and the four bounded queues      *)
(* between them.                                                           *)
(*                                                                         *)
(* The UI thread is a stack of the calls that are under way: "drain" is    *)
(* the slot of the cycle timer, "actions" the slot of the action timer,    *)
(* and every other frame a _wait_for_target_state whose nested event loop  *)
(* runs.  Qt does not re-enter the slot of a timer, so a wait inside the   *)
(* cycle slot can run operator actions and nothing else nests.  The state  *)
(* machine takes a requested edge before the nested loop does anything     *)
(* else, so a request and the entry are one step.  An exception that       *)
(* leaves a slot ends that slot only.                                      *)
(*                                                                         *)
(* Time is not modelled: a stage may always exceed its budget, a tick may  *)
(* always give up waiting.  Frame i of a source has timestamp i.           *)
(***************************************************************************)
EXTENDS Integers, Sequences

CONSTANTS
  TransportKinds,  (* transport.kind the application is started with       *)
  Overlays,        (* values of frame_source.simulated_overlay             *)
  MayPrompt,       (* CVSORTER_ALLOW_BLOCKING_PROMPTS                      *)
  Policy,          (* queue_consumption_policy: NONE, ONE_PER_TICK or ALL  *)
  MaxQueueDepth,   (* transport.max_queue_depth                            *)
  RequestQueueSize, WorkQueueSize, UiQueueSize, ActionQueueSize,
  ReplayLength,    (* frames in the replay directory                       *)
  Buttons,         (* what the operator clicks                             *)
  MaxFrames,       (* bound: live and simulated frames                     *)
  MaxClicks        (* bound: clicks                                        *)

\* What the configuration's parser and the constants of the controller grant.
ASSUME BenchAssumption ==
  /\ TransportKinds \subseteq {"mock", "serial"}
  /\ Policy \in {"NONE", "ONE_PER_TICK", "ALL"}
  /\ MaxQueueDepth \in Nat /\ RequestQueueSize \in Nat /\ ActionQueueSize \in Nat
  /\ WorkQueueSize \in Nat \ {0} /\ UiQueueSize \in Nat \ {0}

VARIABLES
  ctl, timer, stack,                    \* state machine, cycle timer, UI thread
  opMode, fault, prevTs, benchMode,     \* runtime_state
  source, simFeed, simId, degraded, overlay,
  selected, connected,                  \* transport kind chosen, _serial_connected
  acquireQ, frameWorker, workQ, txWorker, uiQ, actionQ,
  lastId,                               \* the ingest policy's last frame id
  tr, cur,                              \* bench_runner's transport is tr[1], the
                                        \* controller's own tr[cur]
  clicks

uiVars      == <<ctl, timer, stack>>
runtimeVars == <<opMode, fault, prevTs, benchMode>>
sourceVars  == <<source, simFeed, simId, degraded, overlay>>
kindVars    == <<selected, connected>>
trVars      == <<tr, cur>>
frameVars   == <<acquireQ, frameWorker>>
workerVars  == <<frameVars, workQ, txWorker, uiQ, lastId>>
clickVars   == <<actionQ, clicks>>
vars == <<uiVars, runtimeVars, sourceVars, kindVars, trVars, workerVars, clickVars>>

-----------------------------------------------------------------------------
Modes   == {"AUTO", "MANUAL", "SAFE"}
Faults  == {"NORMAL", "SAFE", "WATCHDOG"}
Running == {"REPLAY", "LIVE"}
States  == {"IDLE", "FAULTED", "SAFE"} \cup Running
NoSource == [kind |-> "none", next |-> 0]
Idle     == [at |-> "idle"]

\* _allowed_transitions.
Allowed == [s \in States |->
  CASE s = "IDLE"    -> States \ {"IDLE"}
    [] s \in Running -> {"IDLE", "FAULTED", "SAFE"}
    [] s = "FAULTED" -> {"IDLE", "SAFE"}
    [] s = "SAFE"    -> {"IDLE"}]

\* Mutant: a full queue drops nothing.
PutUnbounded(q, item, size) == Append(q, item)

\* BoundedDropQueue.put.
PutDropOldest(q, item, size) == Append(IF Len(q) = size THEN Tail(q) ELSE q, item)
PutDropNewest(q, item, size) == IF Len(q) = size THEN q ELSE Append(q, item)

Post(event) == uiQ' = PutDropOldest(uiQ, event, UiQueueSize)

\* Mutant: a send does not look at the fault state.
SendWhateverTheFault(t) ==
  {[log |-> t.mode,
    t |-> IF t.depth < MaxQueueDepth THEN [t EXCEPT !.depth = @ + 1] ELSE t]}

\* The transports: a mock (module MockTransport; its host endpoint keeps mode
\* and depth) answers from its state, the MCU behind a serial one may answer
\* anything or not at all, and a closed port raises.
NewTransport(kind) == [kind |-> kind, mode |-> "AUTO", depth |-> 0, fault |-> "NORMAL"]

SerialAnswers(t) ==
  {[res |-> r, t |-> t] : r \in {"ack", "nack"}}
    \cup {[res |-> "raise", t |-> [t EXCEPT !.fault = f]] : f \in {"SAFE", "WATCHDOG"}}

SetModeAnswers(t, m) ==
  CASE t.kind = "serial" -> SerialAnswers(t)
    [] t.kind = "closed" -> {[res |-> "raise", t |-> t]}
    [] t.kind = "mock" /\ t.mode = "SAFE" /\ m = "AUTO" ->
         {[res |-> "nack", t |-> [t EXCEPT !.fault = "NORMAL"]]}
    [] OTHER ->
         {[res |-> "ack",
           t |-> [t EXCEPT !.mode = m, !.depth = IF m = t.mode THEN @ ELSE 0,
                           !.fault = IF m = "SAFE" THEN "SAFE" ELSE "NORMAL"]]}

ResetQueueAnswers(t) ==
  CASE t.kind = "serial" -> SerialAnswers(t)
    [] t.kind = "closed" -> {[res |-> "raise", t |-> t]}
    [] t.kind = "mock" ->
         {[res |-> "ack",
           t |-> [t EXCEPT !.depth = 0, !.fault = IF t.mode = "SAFE" THEN "SAFE" ELSE "NORMAL"]]}

\* send(): the mode the log entry will carry, or the way it failed.  A NACK of
\* a host names no mode: the mock puts AUTO there and the serial one UNKNOWN.
SendAnswers(t) ==
  CASE t.kind = "mock" /\ t.fault = "SAFE" -> {[log |-> "AUTO", t |-> t]}
    [] t.kind = "mock" /\ t.fault # "SAFE" /\ t.depth = MaxQueueDepth ->
         {[log |-> "AUTO", t |-> [t EXCEPT !.fault = "NORMAL"]]}
    [] t.kind = "mock" /\ t.fault # "SAFE" /\ t.depth < MaxQueueDepth ->
         {[log |-> t.mode, t |-> [t EXCEPT !.depth = @ + 1,
                                           !.fault = IF t.mode = "SAFE" THEN "SAFE" ELSE "NORMAL"]]}
    [] t.kind = "serial" ->
         {[log |-> m, t |-> [t EXCEPT !.fault = "NORMAL"]] : m \in Modes}
           \cup {[log |-> "UNKNOWN", t |-> [t EXCEPT !.fault = f]] : f \in {"NORMAL", "SAFE"}}
           \cup {[log |-> "raise", t |-> [t EXCEPT !.fault = f]] : f \in {"SAFE", "WATCHDOG"}}
    [] t.kind = "closed" -> {[log |-> "dead", t |-> t]}

-----------------------------------------------------------------------------
Init ==
  /\ ctl = "IDLE" /\ timer = FALSE /\ stack = <<>>
  /\ opMode = "AUTO" /\ fault = "NORMAL" /\ prevTs = 0 /\ benchMode = "REPLAY"
  /\ source = NoSource /\ simFeed = FALSE /\ simId = 0 /\ degraded = FALSE
  /\ overlay \in Overlays
  /\ selected \in TransportKinds /\ connected = (selected = "serial")
  /\ acquireQ = 0 /\ frameWorker = Idle /\ workQ = <<>> /\ txWorker = Idle
  /\ uiQ = <<>> /\ actionQ = <<>> /\ lastId = -1
  /\ tr = [i \in 1..2 |-> NewTransport(selected)] /\ cur = 1
  /\ clicks = 0

-----------------------------------------------------------------------------
(* The UI thread's calls.                                                  *)

Frame(label) == [at |-> label, to |-> "none", restart |-> FALSE]
Top     == stack[Len(stack)]
Rest    == SubSeq(stack, 1, Len(stack) - 1)
In(label) == stack # <<>> /\ Top.at = label
Waiting == stack # <<>> /\ Top.at \notin {"drain", "actions"}
EventLoopRuns == stack = <<>> \/ Waiting

\* Mutant: leaving a running state does not stop the timer.
EnterKeepingTimer(target, label) ==
  /\ ctl' = target
  /\ timer' = (timer \/ target \in Running)
  /\ stack' = Append(stack, [at |-> label, to |-> target, restart |-> timer])

\* _request_transition along an edge of the graph: the timer is stopped, the
\* entry starts it again for a running state, and the wait begins.
Enter(target, label) ==
  /\ ctl' = target
  /\ timer' = (target \in Running)
  /\ stack' = Append(stack, [at |-> label, to |-> target, restart |-> timer])

\* A request the graph rejects changes nothing.
EnterIfAllowed(target, label) ==
  IF target \in Allowed[ctl] THEN Enter(target, label) ELSE UNCHANGED uiVars

\* Mutant: the wait asks for the state the machine is in, not for the entry.
ReturnWhenThere ==
  /\ ctl = Top.to
  /\ stack' = Rest /\ timer' = (timer \/ (Top.restart /\ ctl \in Running)) /\ UNCHANGED ctl

\* The end of a wait: the entry has ended the nested loop, wherever the
\* machine is by now, and a timer that was running before is restarted.
Return == stack' = Rest /\ timer' = (timer \/ (Top.restart /\ ctl \in Running)) /\ UNCHANGED ctl

ClearBacklog == acquireQ' = 0 /\ workQ' = <<>> /\ uiQ' = <<>>

-----------------------------------------------------------------------------
(* The cycle slot.                                                         *)

\* _on_cycle_tick: one more frame is asked for, and the events of the workers
\* are drained until one of them ends a cycle or the deadline passes.
CycleTick ==
  /\ stack = <<>> /\ timer /\ ctl = "REPLAY"
  /\ acquireQ' = IF acquireQ = RequestQueueSize THEN acquireQ ELSE acquireQ + 1
  /\ stack' = <<Frame("drain")>>
  /\ UNCHANGED <<ctl, timer, runtimeVars, sourceVars, kindVars, trVars, frameWorker, workQ,
                 txWorker, uiQ, lastId, clickVars>>

EndTick ==
  /\ In("drain") /\ uiQ = <<>>
  /\ stack' = Rest
  /\ UNCHANGED <<ctl, timer, runtimeVars, sourceVars, kindVars, trVars, workerVars, clickVars>>

NextEvent(kind) ==
  /\ In("drain") /\ uiQ # <<>> /\ uiQ[1].kind = kind
  /\ uiQ' = Tail(uiQ)

\* The handlers of _drain_ui_worker_events, one per kind of event.
DrainSourceFault ==
  /\ NextEvent("source_fault")
  /\ source' = NoSource /\ fault' = "WATCHDOG"
  /\ EnterIfAllowed("FAULTED", "settled")
  /\ UNCHANGED <<opMode, prevTs, benchMode, simFeed, simId, degraded, overlay, kindVars, trVars,
                 frameVars, workQ, txWorker, lastId, clickVars>>

DrainReplayComplete ==
  /\ NextEvent("replay_complete")
  /\ source' = NoSource
  /\ EnterIfAllowed("IDLE", "settled")
  /\ UNCHANGED <<runtimeVars, simFeed, simId, degraded, overlay, kindVars, trVars, frameVars,
                 workQ, txWorker, lastId, clickVars>>

DrainFaulted ==
  /\ NextEvent("faulted")
  /\ fault' = uiQ[1].fault
  /\ EnterIfAllowed("FAULTED", "settled")
  /\ UNCHANGED <<opMode, prevTs, benchMode, sourceVars, kindVars, trVars, frameVars, workQ,
                 txWorker, lastId, clickVars>>

\* _on_transport_response_received takes the mode of a log entry for the
\* operator mode (UNKNOWN raises in the slot and leaves the mode alone).
ModeAfter(log) == IF log \in Modes THEN log ELSE opMode

\* A cycle of a transport in SAFE: SET_MODE SAFE first, then the SAFE state,
\* whose entry repeats the command when it was refused.
CommandSafe(log) ==
  \E first \in SetModeAnswers(tr[cur], "SAFE") :
    IF first.res = "raise"
      THEN /\ tr' = [tr EXCEPT ![cur] = first.t]
           /\ opMode' = ModeAfter(log)
           /\ stack' = Rest
           /\ UNCHANGED <<ctl, timer>>
      ELSE /\ EnterIfAllowed("SAFE", "settled")
           /\ \E second \in IF first.res = "ack" \/ ctl' = ctl THEN {first}
                            ELSE SetModeAnswers(first.t, "SAFE") :
                /\ tr' = [tr EXCEPT ![cur] = second.t]
                /\ opMode' = IF second.res = "ack" THEN "SAFE" ELSE ModeAfter(log)

DrainCycleComplete ==
  /\ NextEvent("cycle_complete")
  /\ prevTs' = IF uiQ[1].log = "none" THEN prevTs ELSE uiQ[1].id
  /\ fault' = tr[cur].fault
  /\ \/ /\ fault' = "NORMAL"
        /\ opMode' = ModeAfter(uiQ[1].log)
        /\ UNCHANGED <<uiVars, tr>>
     \/ /\ fault' = "SAFE"
        /\ CommandSafe(uiQ[1].log)
     \/ /\ fault' = "WATCHDOG"
        /\ opMode' = ModeAfter(uiQ[1].log)
        /\ EnterIfAllowed("FAULTED", "settled")
        /\ UNCHANGED tr
  /\ UNCHANGED <<benchMode, sourceVars, kindVars, cur, frameVars, workQ, txWorker, lastId,
                 clickVars>>

\* The wait of one of these handlers, or of an action that ends with its
\* wait, is over.
Settled ==
  /\ In("settled")
  /\ Return
  /\ UNCHANGED <<runtimeVars, sourceVars, kindVars, trVars, workerVars, clickVars>>

-----------------------------------------------------------------------------
(* The frame worker: _frame_worker_loop.                                   *)

TakeRequest ==
  /\ frameWorker.at = "idle" /\ acquireQ > 0
  /\ acquireQ' = acquireQ - 1
  /\ frameWorker' = [at |-> "asked"]
  /\ UNCHANGED <<uiVars, runtimeVars, sourceVars, kindVars, trVars, workQ, txWorker, uiQ, lastId,
                 clickVars>>

UsesSimulatedFrames == simFeed \/ (benchMode = "REPLAY" /\ selected = "mock" /\ overlay)

\* Mutant: the end of the source is not reported.
EndUnreported == frameWorker' = Idle /\ UNCHANGED <<uiQ, source, simId>>

\* _next_frame has looked at the source and found none.
ReportEnd ==
  /\ frameWorker' = Idle
  /\ Post([kind |-> "replay_complete"])
  /\ UNCHANGED <<source, simId>>

GotFrame(id) == frameWorker' = [at |-> "detecting", id |-> id] /\ UNCHANGED uiQ

LookForFrame ==
  /\ frameWorker.at = "asked"
  /\ \/ /\ UsesSimulatedFrames /\ simId < MaxFrames
        /\ GotFrame(simId)
        /\ simId' = simId + 1
        /\ UNCHANGED source
     \/ /\ ~UsesSimulatedFrames /\ source.kind = "none"
        /\ ReportEnd
     \/ /\ ~UsesSimulatedFrames /\ source.kind # "none"
        /\ frameWorker' = [at |-> "reading"]
        /\ UNCHANGED <<uiQ, source, simId>>
  /\ UNCHANGED <<uiVars, runtimeVars, simFeed, degraded, overlay, kindVars, trVars, acquireQ,
                 workQ, txWorker, lastId, clickVars>>

\* The source is read after it was looked at: by then it may be gone, which
\* is an exception, or another one.
ReadFrame ==
  /\ frameWorker.at = "reading"
  /\ \/ /\ source.kind = "none"
        /\ frameWorker' = Idle
        /\ Post([kind |-> "faulted", fault |-> "SAFE"])
        /\ UNCHANGED <<source, simId>>
     \/ /\ source.kind = "replay" /\ source.next = ReplayLength
        /\ ReportEnd
     \/ /\ \/ source.kind = "replay" /\ source.next < ReplayLength
           \/ source.kind = "live" /\ source.next < MaxFrames
        /\ GotFrame(source.next)
        /\ source' = [source EXCEPT !.next = @ + 1]
        /\ UNCHANGED simId
     \/ /\ source.kind = "live"
        /\ frameWorker' = Idle
        /\ Post([kind |-> "source_fault"])
        /\ UNCHANGED <<source, simId>>
  /\ UNCHANGED <<uiVars, runtimeVars, simFeed, degraded, overlay, kindVars, trVars, acquireQ,
                 workQ, txWorker, lastId, clickVars>>

\* Detection is over: the batch takes the previous timestamp along as it is
\* now, or the frame was invalid, not detectable, or late.
FinishDetection ==
  /\ frameWorker.at = "detecting"
  /\ frameWorker' = Idle
  /\ \/ /\ workQ' = PutDropOldest(workQ, [id |-> frameWorker.id, prev |-> prevTs], WorkQueueSize)
        /\ UNCHANGED uiQ
     \/ /\ \E f \in {"SAFE", "WATCHDOG"} : Post([kind |-> "faulted", fault |-> f])
        /\ UNCHANGED workQ
  /\ UNCHANGED <<uiVars, runtimeVars, sourceVars, kindVars, trVars, acquireQ, txWorker, lastId,
                 clickVars>>

-----------------------------------------------------------------------------
(* The transport worker: _transport_worker_loop.                           *)

TakeBatch ==
  /\ txWorker.at = "idle" /\ workQ # <<>>
  /\ txWorker' = [at |-> "took", batch |-> Head(workQ)]
  /\ workQ' = Tail(workQ)
  /\ UNCHANGED <<uiVars, runtimeVars, sourceVars, kindVars, trVars, frameVars, uiQ, lastId,
                 clickVars>>

\* process_ingest_payload's checks: time does not run backwards and frame ids
\* grow.  Neither of their exceptions is caught by the worker.
IngestAccepts(batch) == batch.prev <= batch.id /\ batch.id > lastId

Done(log) == txWorker' = [at |-> "done", id |-> txWorker.batch.id, log |-> log]
Dies      == txWorker' = [at |-> "dead"]

\* A frame without detections leaves no log, one without a reject sends
\* nothing, and a reject is sent by the runner's own transport.
RunCycle ==
  \/ (Done("none") \/ Done("AUTO")) /\ UNCHANGED <<tr, uiQ>>
  \/ \E o \in SendAnswers(tr[1]) :
       /\ tr' = [tr EXCEPT ![1] = o.t]
       /\ \/ /\ o.log = "raise"
             /\ txWorker' = Idle
             /\ Post([kind |-> "faulted", fault |-> o.t.fault])
          \/ o.log = "dead" /\ Dies /\ UNCHANGED uiQ
          \/ o.log \notin {"raise", "dead"} /\ Done(o.log) /\ UNCHANGED uiQ

ProcessBatch ==
  /\ txWorker.at = "took"
  /\ \/ /\ degraded /\ opMode = "AUTO"
        /\ Done(opMode)
        /\ UNCHANGED <<tr, uiQ, lastId>>
     \/ /\ ~(degraded /\ opMode = "AUTO") /\ IngestAccepts(txWorker.batch)
        /\ lastId' = txWorker.batch.id
        /\ RunCycle
     \/ /\ ~(degraded /\ opMode = "AUTO") /\ ~IngestAccepts(txWorker.batch)
        /\ Dies
        /\ UNCHANGED <<tr, uiQ, lastId>>
  /\ UNCHANGED <<uiVars, runtimeVars, sourceVars, kindVars, cur, frameVars, workQ, clickVars>>

\* _step_transport_queue counts by the copy of a mock's queue, which the UI
\* thread may have emptied.
StepQueue(t) ==
  IF t.kind # "mock" THEN {t}
  ELSE CASE Policy = "NONE" -> {t}
         [] Policy = "ONE_PER_TICK" -> {[t EXCEPT !.depth = IF @ = 0 THEN 0 ELSE @ - 1]}
         [] Policy = "ALL" -> {t, [t EXCEPT !.depth = 0]}

FinishBatch ==
  /\ txWorker.at = "done"
  /\ txWorker' = Idle
  /\ \E t \in StepQueue(tr[cur]) : tr' = [tr EXCEPT ![cur] = t]
  /\ \/ Post([kind |-> "cycle_complete", id |-> txWorker.id, log |-> txWorker.log])
     \/ Post([kind |-> "faulted", fault |-> "WATCHDOG"])
  /\ UNCHANGED <<uiVars, runtimeVars, sourceVars, kindVars, cur, frameVars, workQ, lastId,
                 clickVars>>

-----------------------------------------------------------------------------
(* The operator's actions.                                                 *)

Enabled(button) ==
  CASE button \in {"replay", "live"} -> ctl = "IDLE"
    [] button = "home" -> ctl # "FAULTED"
    [] OTHER -> TRUE

\* _enqueue_ui_action, from an event loop, for a button that is enabled then.
Click(button) ==
  /\ EventLoopRuns /\ clicks < MaxClicks /\ Enabled(button)
  /\ actionQ' = PutDropNewest(actionQ, button, ActionQueueSize)
  /\ clicks' = clicks + 1
  /\ UNCHANGED <<uiVars, runtimeVars, sourceVars, kindVars, trVars, workerVars>>

\* _drain_ui_action_events: its slot starts, takes every action, and ends.
StartActions ==
  /\ EventLoopRuns /\ actionQ # <<>> /\ \A i \in 1..Len(stack) : stack[i].at # "actions"
  /\ stack' = Append(stack, Frame("actions"))
  /\ UNCHANGED <<ctl, timer, runtimeVars, sourceVars, kindVars, trVars, workerVars, clickVars>>

EndActions ==
  /\ In("actions") /\ actionQ = <<>>
  /\ stack' = Rest
  /\ UNCHANGED <<ctl, timer, runtimeVars, sourceVars, kindVars, trVars, workerVars, clickVars>>

NextAction(button) ==
  /\ In("actions") /\ actionQ # <<>> /\ Head(actionQ) = button
  /\ actionQ' = Tail(actionQ)
  /\ UNCHANGED clicks

AutoCycleActive == opMode = "AUTO" /\ ctl \in Running

\* An exception ends the slot of the action timer.
Abort == stack' = Rest /\ UNCHANGED <<ctl, timer>>

\* on_replay_clicked and on_live_clicked up to the transition:
\* _activate_frame_source opens the source or raises a source fault.
OpenReplay ==
  /\ simFeed' = FALSE
  /\ \/ /\ source' = [kind |-> "replay", next |-> 0]
        /\ degraded' = FALSE
        /\ Enter("REPLAY", "replay")
        /\ UNCHANGED fault
     \/ /\ source' = NoSource /\ fault' = "WATCHDOG"
        /\ Enter("FAULTED", "settled")
        /\ UNCHANGED degraded
  /\ UNCHANGED <<simId, opMode, tr>>

\* Without a camera the operator may take the simulated feed: degraded mode,
\* and SET_MODE SAFE, whose failure aborts the action only by an exception.
OpenLive ==
  \/ /\ source' = [kind |-> "live", next |-> 0]
     /\ simFeed' = FALSE /\ degraded' = FALSE
     /\ Enter("LIVE", "live")
     /\ UNCHANGED <<simId, opMode, fault, tr>>
  \/ /\ MayPrompt
     /\ source' = NoSource
     /\ simFeed' = TRUE /\ simId' = 0 /\ degraded' = TRUE
     /\ \E o \in SetModeAnswers(tr[cur], "SAFE") :
          /\ tr' = [tr EXCEPT ![cur] = o.t]
          /\ opMode' = IF o.res = "ack" THEN "SAFE" ELSE opMode
          /\ IF o.res = "raise" THEN Abort ELSE Enter("LIVE", "live")
     /\ UNCHANGED fault
  \/ /\ source' = NoSource /\ fault' = "WATCHDOG" /\ simFeed' = FALSE
     /\ Enter("FAULTED", "settled")
     /\ UNCHANGED <<simId, opMode, degraded, tr>>

StartRun(button) ==
  /\ NextAction(button)
  /\ \/ /\ ctl # "IDLE"
        /\ UNCHANGED <<uiVars, opMode, fault, sourceVars, tr, acquireQ, workQ, uiQ>>
     \/ /\ ctl = "IDLE"
        /\ ClearBacklog
        /\ IF button = "replay" THEN OpenReplay ELSE OpenLive
        /\ UNCHANGED overlay
  /\ UNCHANGED <<prevTs, benchMode, kindVars, cur, frameWorker, txWorker, lastId>>

RunStarted ==
  /\ In("replay") \/ In("live")
  /\ Return
  /\ benchMode' = IF Top.at = "replay" THEN "REPLAY" ELSE "LIVE"
  /\ UNCHANGED <<opMode, fault, prevTs, sourceVars, kindVars, trVars, workerVars, clickVars>>

\* recover_safe_to_manual's first condition.
MayRecover == fault = "SAFE"

\* on_home_clicked: in SAFE it is the recovery to MANUAL, in IDLE the graph
\* rejects it.
Home ==
  /\ NextAction("home")
  /\ \/ /\ ctl = "SAFE" /\ MayRecover
        /\ \E o \in SetModeAnswers(tr[cur], "MANUAL") :
             /\ tr' = [tr EXCEPT ![cur] = o.t]
             /\ opMode' = IF o.res = "ack" THEN "MANUAL" ELSE opMode
             /\ CASE o.res = "ack"   -> Enter("IDLE", "recovered")
                  [] o.res = "nack"  -> UNCHANGED uiVars
                  [] o.res = "raise" -> Abort
     \/ /\ ctl = "SAFE" /\ ~MayRecover
        /\ UNCHANGED <<uiVars, opMode, tr>>
     \/ /\ ctl # "SAFE"
        /\ EnterIfAllowed("IDLE", "home")
        /\ UNCHANGED <<opMode, tr>>
  /\ UNCHANGED <<fault, prevTs, benchMode, sourceVars, kindVars, cur, workerVars>>

Recovered ==
  /\ In("recovered")
  /\ Return
  /\ fault' = "NORMAL"
  /\ UNCHANGED <<opMode, prevTs, benchMode, sourceVars, kindVars, trVars, workerVars, clickVars>>

\* The rest of on_home_clicked: a RESET_QUEUE that raises leaves the source
\* open, and the previous timestamp and the fault state as they are.
HomeReached ==
  /\ In("home")
  /\ ClearBacklog
  /\ \E o \in ResetQueueAnswers(tr[cur]) :
       /\ tr' = [tr EXCEPT ![cur] = o.t]
       /\ \/ /\ o.res # "raise"
             /\ source' = NoSource /\ prevTs' = 0 /\ fault' = "NORMAL"
             /\ stack' = Rest
          \/ /\ o.res = "raise"
             /\ stack' = SubSeq(stack, 1, Len(stack) - 2)
             /\ UNCHANGED <<source, prevTs, fault>>
  /\ timer' = (timer \/ (Top.restart /\ ctl \in Running)) /\ UNCHANGED ctl
  /\ UNCHANGED <<opMode, benchMode, simFeed, simId, degraded, overlay, kindVars, cur,
                 frameWorker, txWorker, lastId, clickVars>>

\* on_mcu_selector_changed.
SelectKind(kind) ==
  /\ NextAction(kind)
  /\ selected' = IF AutoCycleActive THEN selected ELSE kind
  /\ UNCHANGED <<uiVars, runtimeVars, sourceVars, connected, trVars, workerVars>>

\* on_serial_connect_clicked: the controller's transport is replaced; the one
\* the runner was built with stays the runner's.
Reconnect(kind) == cur' = 2 /\ tr' = [tr EXCEPT ![2] = NewTransport(kind)]

SerialConnect ==
  /\ NextAction("connect")
  /\ \/ /\ AutoCycleActive \/ (selected = "serial" /\ connected)
        /\ UNCHANGED <<connected, trVars>>
     \/ /\ ~AutoCycleActive /\ selected = "mock"
        /\ connected' = FALSE
        /\ Reconnect("mock")
     \/ /\ ~AutoCycleActive /\ selected = "serial" /\ ~connected
        /\ \/ connected' = TRUE /\ Reconnect("serial")
           \/ UNCHANGED <<connected, trVars>>
  /\ UNCHANGED <<uiVars, runtimeVars, sourceVars, selected, workerVars>>

SerialDisconnect ==
  /\ NextAction("disconnect")
  /\ connected' = (AutoCycleActive /\ connected)
  /\ tr' = IF AutoCycleActive \/ tr[cur].kind = "mock" THEN tr
           ELSE [tr EXCEPT ![cur].kind = "closed"]
  /\ UNCHANGED <<uiVars, runtimeVars, sourceVars, selected, cur, workerVars>>

\* on_fire_test_clicked: a manual job, on the controller's transport.
FireTest ==
  /\ NextAction("fire")
  /\ IF opMode # "MANUAL" THEN UNCHANGED <<tr, uiVars>>
     ELSE \E o \in SendAnswers(tr[cur]) :
            /\ tr' = [tr EXCEPT ![cur] = o.t]
            /\ IF o.log \in {"raise", "dead"} THEN Abort ELSE UNCHANGED uiVars
  /\ UNCHANGED <<runtimeVars, sourceVars, kindVars, cur, workerVars>>

-----------------------------------------------------------------------------
CycleSlot == \/ CycleTick \/ EndTick \/ Settled
             \/ DrainSourceFault \/ DrainReplayComplete \/ DrainFaulted \/ DrainCycleComplete

ActionSlot == \/ StartActions \/ EndActions
              \/ StartRun("replay") \/ StartRun("live") \/ RunStarted
              \/ Home \/ Recovered \/ HomeReached
              \/ SelectKind("mock") \/ SelectKind("serial")
              \/ SerialConnect \/ SerialDisconnect \/ FireTest

FrameWorker == TakeRequest \/ LookForFrame \/ ReadFrame \/ FinishDetection

TransportWorker == TakeBatch \/ ProcessBatch \/ FinishBatch

Next == CycleSlot \/ ActionSlot \/ FrameWorker \/ TransportWorker
          \/ \E button \in Buttons : Click(button)

\* The two slots run while the event loop does, and the threads are daemons
\* that loop for ever.  The operator owes nothing.
Fairness == WF_vars(CycleSlot) /\ WF_vars(ActionSlot) /\ WF_vars(FrameWorker)
              /\ WF_vars(TransportWorker)

Spec == Init /\ [][Next]_vars /\ Fairness

-----------------------------------------------------------------------------
AtRest == stack = <<>>

\* Every queue keeps its bound, the calls nest as Qt lets them, and the state
\* is one of the five.
BenchTypeOK ==
  /\ ctl \in States /\ opMode \in Modes /\ fault \in Faults
  /\ acquireQ \in 0..RequestQueueSize /\ Len(workQ) <= WorkQueueSize
  /\ Len(uiQ) <= UiQueueSize /\ Len(actionQ) <= ActionQueueSize
  /\ Len(stack) <= 4
  /\ \A i \in 1..2 : tr[i].depth \in 0..MaxQueueDepth

\* Frames are asked for exactly while a run is on: whatever operator action
\* ran inside the wait of a cycle, the timer is active at rest just when the
\* state is a running one.
TimerFollowsRun == AtRest => (timer <=> ctl \in Running)

\* A controller in SAFE gives its mock no job, neither by hand nor from a
\* batch that was under way when SAFE was entered: its mock is in SAFE too, or
\* it is one that was connected since, which is in AUTO and takes jobs.
NoDispatchInSafe ==
  [][ctl = "SAFE" /\ ctl' = "SAFE" /\ tr[cur].kind = "mock" /\ tr[cur].mode # "AUTO" =>
       tr'[cur].depth <= tr[cur].depth]_vars

\* The UI thread never blocks for good: whatever the workers post, and
\* whichever action moves the state machine on inside the wait of a cycle,
\* every slot and every wait comes to its end.
UiComesToRest == stack # <<>> ~> AtRest

\* A replay ends by itself: frames may be dropped, events overwritten, cycles
\* late and the transport worker gone, but the run is over at last.
ReplayEnds == (ctl = "REPLAY" /\ ~overlay) ~> ctl # "REPLAY"

\* docs/hardware_readiness_gate.md:11 asks that every injected watchdog or
\* timeout fault can be recovered from without a restart: in SAFE the only
\* way on is the recovery, which must find the fault state SAFE.
SafeIsRecoverable == AtRest /\ ctl = "SAFE" => MayRecover
=============================================================================
