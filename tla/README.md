# CVsorter: TLA+ models, checks and proofs

CVsorter sorts objects on a belt: cameras detect them, a pipeline decides which to reject, and
scheduled commands make a microcontroller (MCU) fire an actuator when the belt encoder reaches
the trigger position. This directory models the program from the picture to the actuator: the
detection and decision pipeline, the bench runner and the operator application that drive it,
the live runtime, the protocol endpoint, the transports that talk to it, and the firmware.

Paths below are relative to the repository root (`protocol/host.py` etc. live under
`src/coloursorter/`, the operator application under `gui/bench_app/`, the firmware under
`firmware/`).

## 1. The system

| Component | State it keeps | Operations | Talks to |
|---|---|---|---|
| Host endpoint, `protocol/host.py` | mode, job queue, derived scheduler state, link state, handshake, heartbeat time, dedupe cache (a dict and a list) | `handle_frame` → HELLO, HEARTBEAT, SET_MODE, SCHED, GET_STATE, RESET_QUEUE | called by the mock transport and by the operator application; its protocol is what the serial transport speaks |
| Serial transport, `bench/serial_transport.py` | next message id, handshake flag, two heartbeat clocks, sync flag, expected mode, last depth, fault state, in-flight frame | `send`, `send_command`, `close` | a serial port with an endpoint behind it |
| Mock transport, `bench/mock_transport.py` | an embedded endpoint, a copy of its queue, fault state, "queue cleared" observation | `send`, `send_command`, `step_queue` | its endpoint, also behind the endpoint's back |
| Ingest boundary, `ingest/` | bounded queue, last frame id | `submit`, `next_cycle_input` | adapter, runner |
| Decision pipeline, `deploy/pipeline.py`, `calibration/`, `preprocess/`, `eval/rules.py` | geometry, calibration, the two modification times it remembers | construction, hot reload, `run` | two files that anyone may edit |
| Detection, `deploy/detection.py` | metrics of the last picture | `detect`, `capture_fault_reason` | camera, pipeline |
| Bench runner, `bench/runner.py`, `bench/virtual_encoder.py` | issued command keys, encoder accumulator and last pulse | `process_ingest_payload`, `run_cycle` | pipeline, transport |
| Command line and scenarios, `bench/cli.py`, `bench/scenarios.py`, `bench/evaluation.py` | none that outlives a run | frames to exit code | runner, files |
| Operator application, `gui/bench_app/controller.py` | controller state machine, cycle timer, operator mode, fault state, four bounded queues, two worker threads, two transports | button handlers, cycle slot, action slot, worker loops, recovery | runner, transport, local endpoint |
| Startup configuration, `config/runtime.py` | the stack of its YAML parser | parse, validate | live runtime, command line |
| Reject profiles, `eval/reject_profiles.py`, and their window, `gui/bench_app/reject_profile_manager.py` | a file; profiles, selection and current profile of the window | load, select, edit, clone, delete, save | live runtime, command line, operator application read the file |
| Live runtime, `runtime/live_runner.py` | thresholds, start-up diagnostics, freshness guard, devices | constructor, `run` | camera, detection, pipeline, transport, trace |
| Event queue, `firmware/mcu/src/queue.c` | array heap and its size | push, pop, peek, clear | scheduler, safety |
| Scheduler, safety latch, dispatcher, encoder, main loop, `firmware/mcu/src/*.c` | SAFE latch, last fault, servo enable, encoder ticks, runtime state, last pulse | `scheduler_schedule`, `scheduler_enqueue`, `scheduler_dispatch_ready_slot`, `safety_*`, `fw_dispatch_command` | the event queue |
| Line protocol, `firmware/serial_protocol.cpp` | byte ring (array, two cursors, count), line buffer, "dropping a long line" | `ingest_byte(s)`, `process` | scheduler and safety through callbacks |
| Python serial buffer, ESP32 adapter, actuator timing, views, test launcher, integration stub, training | none, or none the running system uses | - | - |

What is hard in it, and what has to be right:

* **Retries and lost answers** (serial transport, endpoint). A frame is written up to
  `max_retries + 1` times; the endpoint recognises a repeat by its id. Right means: a job is
  enqueued at most once, and what `send()` reports is what happened.
* **Answers out of step.** The transport takes the next line it reads for the answer to the
  last frame it wrote. Right means: no job is enqueued twice because of it.
* **Restarts on either side.** The endpoint loses its state; a new transport restarts its ids.
* **Mirrored state** (transport's expected mode and depth, mock's copy of the queue, firmware's
  runtime state). Right means: it agrees, or a resynchronisation is pending.
* **Data structures kept in step by hand** (dedupe cache, byte ring, heap, the profiles window).
* **SAFE** in four places (endpoint mode, mock fault state, firmware latch, controller state).
  Right means: nothing queued before it is actuated after it, nothing is queued in it, and it
  can be left.
* **Threads and nested event loops** (operator application). Two workers post into bounded
  queues that drop; a wait on the UI thread runs operator actions. Right means: the timer
  follows the run, a replay ends, the UI comes to rest.
* **Fallbacks past the gates** (runner). Dedupe, staleness and budget gates take a command out,
  the detect-timeout fallback may put one in. Right means: one job per object, and a passing
  exit code only when everything to be rejected was queued.
* **Files edited under a running process** (calibration, geometry, profiles).
* **Devices opened in sequence** (live runtime), and a **camera that freezes**.
* **Overflow in the middle of a line** on the firmware's serial input.

`PROJECT.json` lists these as hazards, each at its line, with the properties that watch it.

## 2. Modules

| Module | Models | State and actions |
|---|---|---|
| `ModeQueue` | abstract: what an endpoint promises | `mode`, `queue`; admit at the tail within the depth, drain from the front, change mode along the policy with an emptied queue |
| `Host` | `protocol/host.py`, `policy.py`, `nack_codes.py` | one variable per field; one action per handler, plus repeat, busy, unknown command, malformed frame, invalid token, clock tick. An argument check that fails is named by the request's `flaw`; the wire text is left out |
| `SerialLink` | `bench/serial_transport.py` with `Host` at the other end | `pc` names the frame whose answer the transport waits for; the answer's actions (`TakeHello` ... `TakeCommand`) are what the code does between that `readline` and the next one. The cable (two FIFO channels, unplugging, noise), the endpoint's restart and a second transport are the environment |
| `MockTransport` | `bench/mock_transport.py` around `Host` | every command through `HandleRequest`; `StepQueue` edits the endpoint's fields as the code does |
| `Ingest` | `ingest/` | `queue`, `lastFrameId`; a payload is a frame with the flaw the adapter would find |
| `VirtualEncoder` | `bench/virtual_encoder.py` | operators on a record: pulses of a window, what is carried over, the pulse a trigger is projected from; belt travel in whole units, pulse times in 1/Rate ticks |
| `Pipeline` | `deploy/pipeline.py` and what it calls | a file is a version and what reading it gives; looking at the modification time and reading are two steps, between which the file may be edited |
| `BenchCycle` | `bench/runner.py`, `bench/cli.py`, scenarios, on `Ingest`, `VirtualEncoder`, `Pipeline` | one cycle at a time: submit, take, begin, reload, decide, then one `HandleDetection` per object; driven by the command line (to an exit code) or by a caller who goes on after exceptions |
| `BenchController` | `gui/bench_app/controller.py` | `ctl`, `timer`; the UI thread is the stack of its calls under way; two workers; request, work, event and action queues; two transports (the controller's and the runner's) |
| `RuntimeConfig` | `config/runtime.py` | `document` grows by a line per step, `stack` and `parents` are the parser's |
| `RejectProfiles` | `eval/reject_profiles.py`, `reject_profile_manager.py` | `file`, `window`; saving is two steps (`write_text` empties the file first) |
| `Detection` | `deploy/detection.py` | operators: gain, metrics, detections of a grey picture with two levels, in the code's integer and ratio arithmetic |
| `LiveRun` | `runtime/live_runner.py` on `RuntimeConfig`, `RejectProfiles`, `Detection`, `Pipeline` | `stage` names where the process is; one action per step that can raise or open something; an operator edits files beside it |
| `PriorityQueue` | abstract: what the event queue promises | a set; insert below capacity, remove an earliest, empty |
| `EventHeap` | `queue.c` | the array; a sift loop is a function of the number of its turns |
| `Mcu` | `scheduler.c`, `safety.c`, `encoder.c`, `command_dispatch.c`, `actuator.c`, `main.c` around `EventHeap` | one action per entry point and per command; a history of each job's fate and of the SAFE entries |
| `BoundedFifo` | abstract: what the byte ring promises | a sequence |
| `ByteRing` | the ring of `serial_protocol.cpp` | `ring`, `head`, `tail`, `count` |
| `LineProtocol` | the rest of `serial_protocol.cpp` around `ByteRing` | a byte stands for text that is handled alike; one turn of `process()`'s loop is a step, so bytes may arrive between any two |
| `...Proofs` | theorems | section 6 |
| `MC...` | instances for TLC | constants only |

Operators marked "Mutant" are altered forms of the operator that follows them; they are used
nowhere in the specifications and document which slip each property detects.

Components compose by EXTENDS, with their actions conjoined: `Host` into `SerialLink` and
`MockTransport`, `EventHeap` into `Mcu`, `ByteRing` into `LineProtocol`; `Ingest`,
`VirtualEncoder` and `Pipeline` into `BenchCycle`; `RuntimeConfig`, `RejectProfiles`, `Detection`
and `Pipeline` into `LiveRun`. The refinement mappings are `INSTANCE`s at the end of `Host` (which
`MockTransport` uses too), `EventHeap` and `ByteRing`. `BenchCycle` and `LiveRun` take the transport by its
outcomes (acknowledged, refused with a fault, raises), `BenchController` by its depth and fault:
what a transport does inside a call is the business of `SerialLink` and `MockTransport`. Nothing
on the host side links to the firmware: `fw_dispatch_command` has no caller outside `main.c` and
the tests, and the line protocol's wire text is not that of the host protocol (see
`docs/host_mcu_protocol_divergence_audit.md`), so the two halves are modelled apart.

## 3. Runs that pass

| Run | Checks | Bounds |
|---|---|---|
| `host` | types, cache coherence, queue coherence, effects remembered, refinement of `ModeQueue` | 3 ids with a cache of 2 (so ids are evicted and come back), queue of 2, 2 jobs, ids and jobs symmetric |
| `serial_link` | true reports, mirror agreement, redundancy of the poll, every call returns | 2 calls, 1 retry, queue of 1, one unplugging, one garbled line, one endpoint restart |
| `serial_sessions` | at most once | 3 calls, queue of 2, two transports that reuse message ids, two answers that come too late (both attempts of one frame), one endpoint restart, no cable noise |
| `mock_transport` | copy of the queue, refinement of `ModeQueue` with `step_queue` as its drain | 8 ids, cache of 2, queue of 2 |
| `bench_controller` | bounds of the queues, the timer follows the run, nothing dispatched in SAFE | replay of 2 frames, 1 live frame, queues of 2 and 1, endpoint queue of 1, 3 clicks of Replay, Live and Home |
| `bench_live` | the UI comes to rest, a replay ends | every button, 2 clicks, replay of 1 frame, both overlays, policy ALL |
| `bench_cycle` | a pass leaves no more rejects unqueued than tolerated, one job per object, travel conserved, triggers in the past, current calibration | 3 frame ids in 2 cycles with 2 objects each, two edits of the two files together, both fallbacks (SAFE only for the command line, which cannot choose), both drivers, a reliability of 50 %, capacity 1 with DROP_OLDEST; 3 units a tick, 2 units a pulse, half of the pulses kept |
| `live_run` | nesting of the parser, window and file agree, devices closed, frozen picture bounded, trace and wire agree, dark frames send nothing, the run ends | documents of 4 lines with depth 2, 3 operations in the window, 5 files to start from, 3 pictures, all three providers, 3 repeats, a cycle limit of 2 or none |
| `event_heap` | heap order, refinement of `PriorityQueue` | 6 places, 7 events, 4 ticks: pops sink over two levels, ticks repeat, a push meets a full array |
| `mcu` | one fate per job, SAFE flushes, the root speaks for all, actuation in order and outside SAFE | 3 jobs, queue of 3, two served lanes with different compensation and one unserved, one SAFE entry |
| `line_protocol` | framing, ring coherence, refinement of `BoundedFifo`, damage is caught by SAFE | ring of 3, line of 4, 3 lines |

Each module has one type invariant; where it is not a property of its own it is the first
conjunct of one (`McuTypeOK` of `OneFatePerJob`, `MockTypeOK` of `CopyIsCurrent`,
`ProtocolTypeOK` of `FramingIsExact`, `LinkTypeOK` of `PollIsRedundant`, `LiveTypeOK` of
`TraceAgreesWithWire`).

Why the bounds are enough: each is one more than the smallest value at which the case of interest
arises (an evicted id that returns, a second call on stale state, a queue that refuses, a node
with two levels below it, a line that straddles an overflow, a frame that is decided twice, a
document whose last line closes two levels). One retry instead of three and one unplugging
instead of many leave out repetitions of the same step: the retry loop's only memory is its
counter. The queue of `serial_link` has one place so that the second call meets a full queue;
that of `serial_sessions` has two so that a job executed twice would fit. In `bench_controller`
every queue holds at most two, so that each of them overflows; three clicks are a run, a Home in
its wait and a second run. One edit of a file is enough for a reader to be between the look and
the reading, and a second one for a file that is broken and repaired before the pipeline is run
again; that the files may be edited any number of times is proved (section 6).
The scenarios ask for a reliability of 0.99, which only tells a lost reject from none when a hundred
are expected. `bench_cycle` expects a few, and asks for 50 %: one of two rejects queued passes,
none of two fails. `PassIsEarned` is proved for every percentage, scene and number
of frames.

`bench_controller` leaves out the connection buttons; `bench_live` has all buttons, and
`NoDispatchInSafe` is proved for every set of them (section 6). A mock that is connected while the
controller is in SAFE is a new one, in AUTO, and takes a manual job (section 4): the property
speaks of a mock that is not in AUTO.

`CHECK_DEADLOCK FALSE` stands where the bound on calls, clicks, frames or lines ends the
behaviour; the other runs check for deadlock.

Some passing properties exempt cases in which the code does not keep what they say (section 4),
and say so in their text: `ReportsAreTrue` excludes late answers, restarts and, for NACKs other than
queue-full and busy, a garbled retry; `MirrorAgrees` excludes the same; `SafeCatchesDamage` excludes
a CLEAR_SAFE dispatched since the loss; `NoObjectSentTwice` and `SentWithCurrentCalibration` speak
of the SAFE fallback, since the REJECT fallback bypasses the gates; `NoDispatchInSafe` of a mock
that was not connected since; `DarkFramesSendNothing` of the OpenCV providers; `NothingLeftOpen` excludes
the port of a run whose camera could not be opened.

### Fairness

* `FairSpec` of `SerialLink`: a transport waiting in `readline` eventually reads a line or times
  out (a serial read with a timeout does) and the endpoint eventually reads its input. Nothing is
  asked of the cable, the caller or the clock.
* `Spec` of `BenchController`: weak fairness of the cycle slot, the action slot and the two
  workers. Qt's event loop runs for as long as the window is open, both threads loop for ever and
  every wait in them has a timeout. The operator owes nothing.
* `FairLiveSpec` of `LiveRun`: weak fairness of the process's own steps. It has one thread, and
  what it calls returns. Editors and the camera owe nothing: `RunEnds` assumes that the camera
  freezes for good or that cycles are limited.

## 4. Where the code and its documents disagree

One run checks a property that a document of the repository states, and TLC finds a behaviour of
the code that breaks it ("findings" in `PROJECT.json` quotes the lines).

| Run | The repository says | The code does |
|---|---|---|
| `bench_safe_unrecoverable` | every injected watchdog or timeout fault recovers without a restart (`docs/hardware_readiness_gate.md:11`) | a `cycle_complete` event enters SAFE; a watchdog event that was queued behind it overwrites the fault state with WATCHDOG (the transition to FAULTED is rejected). Recovery asks for the fault SAFE (`controller.py:1318`), so Home is refused for ever, and SAFE has no other way out |

The models reproduce further differences that were noted while reading the code. No run is spent
on them; each is visible at the lines named.

Transport, endpoint, mock:

* A late ACK is credited to the frame written last, whose id is not compared
  (`serial_transport.py:172`).
* SET_MODE MANUAL cannot be reached from SAFE: the state sync asks for AUTO first and raises
  (`serial_transport.py:291`; `state_machine.md:47`).
* After a restart of the endpoint no HEARTBEAT follows the new HELLO, so SCHED is refused as BUSY
  (`serial_transport.py:234`; `tests/test_serial_transport.py:228` expects an ACK).
* A NACK for an invalid transition ends the mock's SAFE fault (`mock_transport.py:84`;
  `error_model.md:35`).
* SCHED is accepted on a DEGRADED link (`host.py:184`; `command_executor.md:15`). An empty or
  over-long token raises out of `handle_frame` (`host.py:100`; `error_model.md:32`).
* Message ids restart with each transport object while the endpoint's cache lives on, so a new
  SCHED can be answered from the cache (`serial_transport.py:302`). NACK 8 to a damaged retry is
  reported as a rejection although the first copy was executed (`serial_transport.py:326`).

Operator application:

* Only a replay asks for frames (`controller.py:907`): a live run acquires nothing.
* The timestamp a source starts from is reset by Home only, and only out of a run; ids restart
  with the source. A second replay's first frame is refused by the ingest boundary with an
  exception the transport worker does not catch (`controller.py:1072`), and the thread ends.
  `ReplayEnds` holds all the same, because the frame worker reports the end.
* The endpoint's SET_MODE SAFE may raise before `request_safe` (`controller.py:966`); the tick ends
  and the controller goes on in the run. A `replay_complete` that waited takes SAFE to IDLE
  without a recovery.
* Synthetic log entries carry mode "AUTO" and overwrite the operator mode; a serial NACK carries
  mode "UNKNOWN", which is no `OperatorMode` (`controller.py:641`).
* Reconnecting replaces the controller's transport, not the runner's (`controller.py:1577`), and a
  new mock is in AUTO whatever the controller's state. Disconnecting closes the port under the
  transport worker.
* `recover_to_auto` asks for IDLE from IDLE, which `_is_transition_allowed` refuses
  (`controller.py:777`), so it never returns True; `tests/test_bench_controller_gui.py:306`
  expects it to. No button calls it.
* FAULTED disables Replay, Live and Home (`controller.py:671-676`), so no button leaves it.

Runner and command line:

* The log shows the position less the latency calibrator's offset, the wire the position without it
  (`runner.py:171-176`, `:229`).
* The REJECT fallback builds a command after the dedupe and staleness gates took it out
  (`runner.py:213`), so an object may be sent twice and from an inconsistent calibration.
* A send that came late is logged as NACK_SAFE with a cleared queue although the job is queued
  (`runner.py:234`). Synthetic answers have a round trip of 0, which enters the jitter, and
  synthetic ACKs count as a recovery from SAFE (`bench/scenarios.py`).
* Exit code 0 tolerates one expected reject in a hundred that was refused, late on the wire or never
  acknowledged (`scenarios.py:54,79`): with the default of 300 cycles a run that passes may have left
  objects unsorted. `PassMeansRejectsAreQueued` states that share, not "every reject".
* A `TypeError` out of the pipeline, such as the one for a list in the place of a number in an edited
  file, is taken for an older interface: the pipeline runs once more with the default thresholds and
  without the capture fault (`runner.py:150`). When the file has been repaired in between, a
  frame whose capture was found faulty is decided as a good one.
* A send that raises loses the entries of the objects sent before it. The detector is built
  after the source was opened and outside the `try` (`cli.py`), so a bad recipe leaves it open.

Files:

* `write_text` empties the profiles file before it fills it, and a process that starts in between
  works with the default thresholds (`reject_profiles.py:101`). A process that found no file
  writes the defaults and can overwrite profiles the window has just saved.
* Fractional thresholds are rounded when any spin box of their profile changes
  (`reject_profile_manager.py:142-152`). Broken YAML raises an error other than the one the readers
  catch.
* The pipeline's constructor loads a file before it looks at its modification time, so an edit in
  between is not noticed until the next one.
* The YAML subset refuses `key:` followed by items, and attaches a line that is deeper than a
  scalar to the enclosing block (`config/runtime.py:553`).

Live runtime:

* The port is opened before the camera and outside the `try` block (`live_runner.py:424-444`): a
  camera that cannot be opened leaves it open. `NothingLeftOpen` says so.
* MCU answers are ignored and `main` returns 0 always. A camera that fails ends the run without
  the failure sink.
* All jobs of a frame are sent before any is traced (`live_runner.py:492`).
* The model stub has no metrics, so that its dark frames are acted on, and its constant score is a
  reject under the default threshold. `detection.py:34` calls the score a classification
  confidence; `rules.py:32` rejects at or above it.

Firmware:

* The dispatcher's SCHED enqueues in SAFE (`scheduler.c:30`; `state_model.md:10` denies motion
  commands).
* The event queue holds 512 jobs, `FW_QUEUE_DEPTH_MAX` is unused (`queue.c:15`;
  `mcu_target_constraints.md:24`), and jobs with equal ticks may change their order (`queue.c:46`;
  `threading_model.md:28`).
* `main.c:27` dispatches with the constant tick 0, so a job due later is never looked at again;
  the run of `Mcu` lets the dispatch step be called with later ticks too, as its tests do.
* HEARTBEAT reports the depth of an earlier command, and SET_MODE SAFE leaves the queue alone
  (`command_dispatch.c:41-52`; `state_machine.md:22,29`). `watchdog_expired` has no caller.
  `encoder_reset` leaves queued jobs with ticks of the old origin.

## 5. What the properties rest on

Atomicity. The endpoint, the transports and each firmware entry point run to completion once
entered: the host side is single-threaded per object, and the firmware has one loop. In
`BenchController` a step is what a thread does between two accesses to what it shares with another
(a queue, the fault state, a transport, the mode); on the UI thread the nested event loop of a
wait is a step boundary, and the state machine takes a requested edge before the loop does
anything else, so request and entry are one step. A send is one step: two threads inside one
transport object are not interleaved, although the code lets them be (`controller.py:1233`).
In `LiveRun` and `Pipeline` the steps are cut where an edit of a file can be told apart. Where
bytes arrive during `process()` the model interleaves at the finest step the code's own calls
allow; nothing in the repository calls `ingest_byte` from an interrupt, so a data race on
`ring_count_` is not a behaviour of this code.

Time. Clocks are abstracted to what is compared: `SerialLink` counts ages, `BenchCycle` chooses
whether a stage, a frame or a send was over its limit, `LiveRun` whether two frames are apart by
nothing, little or too much, and waits in `BenchController` may always give up.

External behaviour modelled from its use: the cable and the endpoint's restart in `SerialLink`,
the peer that sends lines and the callbacks in `LineProtocol`, the operator in `BenchController`
and `RejectProfiles`, the editor of files in `Pipeline`, the camera and the contour finder in
`LiveRun`, the caller of the runner in `BenchCycle`.

## 6. Proofs

TLAPS checks the following for every value of the constants that the ASSUMEs admit (queue depth
and cache size at least 1 and a heartbeat timeout in `Nat`; a ring of at least one cell; an
ingest queue of at least one place; a belt speed and a pulse length of at least 1; a reliability of
0 to 100 percent and frames whose objects are unique; a limit of
repeats in `Nat`; a mock that counts at least two ids, all of them ids of the wire, and is given
one of the three fault states; a controller whose two drop-oldest queues have a place, whose
policy is one of the three and whose transports are the mock and the serial one; an event queue of
at least one place; lines that end nowhere before their NL, a line buffer and a scheduler's capacity
in `Nat`; indentations and a greatest nesting in `Nat`; default thresholds that are integers, one
for each key, integers in the spin boxes, and files whose profiles have such thresholds too; the three
built-in detection providers, levels of 8 bits and shares in percents; ticks that hold the range of the firmware's `int32_t` and an id for every job
and lane; a serial link with at least nine message ids per call, which is as many as one call can
hand out, and an id for every job). The code enforces these in its constructors, its configuration's
parser or its enumerations, with a `static_assert`, or by the constants it is built from (the
transport's message ids are the decimal text of a number without a bound, `serial_transport.py:302`).

`HostProofs`:

* `HostInvariant`: `HostSpec => []HostInv`. `HostTypeOK` is not inductive on its own: that the
  queue is empty when the scheduler state is IDLE, and that evicting `Head(recentIds)` removes
  exactly one key, need the coherence of cache and queue. `HostInv` is the conjunction of the
  type invariant, `CacheCoherent` and `QueueCoherent`, regrouped into a cache part and a control
  part (`HostInvParts`) because each handler touches the two through different helpers. The
  argument has one lemma per helper (`RememberCoherent`, `AnswerStep`, `RejectStep`,
  `SetQueueStep`) and one per handler; the hard one is eviction, where the index arithmetic of
  `Append(Tail(s), id)` keeps ids distinct because the new id was not cached.
* `HostTypeCorrect`, `CacheStaysCoherent`, `QueueStaysCoherent`: its three conjuncts.
* `EffectsStayRemembered`: every handler that changes mode, queue or handshake goes through
  `Answer`, which files a fresh id.
* `HostImplementsModeQueue`: every step is an admission, a drain of the whole queue, a permitted
  mode change with an empty queue, or a stutter.

`LinkProofs`, about the serial transport, its cable and the endpoint, for any number of calls,
retries, restarts, unpluggings, garbled lines and late answers:

* `HostStaysCoherent` and `PollStaysRedundant`, from `LinkInv`: the endpoint's invariant carries over
  by the lemmas of `HostProofs`; of the transport, what it waits for determines which frame is in
  flight (`FrameInv`), ids are handed out in the order of the frames (`WireInv`), and the answered
  heartbeat is never older than the sent one but while a refused one waits for its handshake.
* `JobsEnqueuedAtMostOnce`, from `OnceInv`. The ids do not carry the argument: a second transport hands
  out the same ones again and the cache forgets. What carries it is the order in the cable. Call the
  frames under way, and the one that may be written again, the wave; all copies of one job's frame
  are together in it, and if one was executed the copies left come first, so that the endpoint still
  has that id as its latest, or has lost its handshake in a restart and refuses them
  (`DoneFirst`). The wave loses frames and gains at its end, and each is a lemma on sequences of frames (`ShiftKeeps`, `AddNew`, `AddAgain`, `HeadGoes`).
* `ReportsStayTrue` and `MirrorStaysTrue`, from `SyncInv` and `QuietInv`. Both properties hold while no
  readline gives up on an answer under way and neither end restarts; then one line at most is under
  way (`OneOut`), a frame is served once unless it was lost (`NoLoss`), and the answer filed for the
  frame in flight describes the endpoint as it is (`FiledInv`). `MirrorPart` says in which state
  of a call the mirror is right already and in which only the answer under way will make it right;
  between two calls that is `MirrorAgrees`.

`McuProofs`, about the event queue and the firmware around it:

* `HeapStaysOrdered`, `HeapImplementsPriorityQueue`. A sift loop is a function of its turns, and a fact
  about its last turn takes an induction over them; it is done by the least counterexample
  (`LeastOf`, from the well-ordering of Nat), since the library's induction theorems cannot be
  instantiated. On the way up or down the heap is in order but for one place, whose parent and
  children agree over its head (`RiseStep`, `SinkStep`); swapping two places keeps the set of
  events and their ids apart; the root is a minimum, again by a least counterexample.
* `McuUsesTheQueue`, `McuImplementsPriorityQueue`: every step of the firmware is one operation of the
  queue or leaves it alone, so the two theorems above hold of the queue inside it.
* `EveryJobHasOneFate`, `SafeAlwaysFlushes`, `ActuationIsAlwaysSound`, from `McuInv`: the queue and the
  fates describe the same jobs (`JobsInv`), and what is queued was queued in this epoch
  (`EpochInv`, whose hard step is that an entry into SAFE empties the queue also when the overflow of
  a push caused it).
* `RootAlwaysSpeaksForAll` has a hypothesis on the constants, `NothingWraps`: no trigger tick that the two
  ways into the queue compute leaves the range of an `int32_t`, and no distance from it to the dispatch
  tick does. The instance meets it; the code does not check it (`scheduler.c:82-91`), and
  without it a heap ordered by `<` and a test ordered by a wrapping difference disagree.

`LineProofs`: `RingStaysCoherent` and `RingImplementsFifo`, by the modular arithmetic of
`WrapOnce`, `CellAfter`, `CellsDiffer` and `CellNext` (storing at `head` touches no cell between
the cursors unless the ring is full). `ProtocolRingCoherent` and `ProtocolImplementsFifo` lift both
to the whole protocol: every step of `ProtocolSpec` is a step of the ring or leaves it alone
(`ProtocolStepsRing`). `FramingStaysExact` and `SafeAlwaysCatchesDamage` are about the whole path of a
line, from `FramingInv`: as long as nothing was lost, what is in the ring followed by what is still
to come is cut at its NLs into exactly the lines not dispatched yet, and the line buffer holds the
part of the first that has been read (`Cut`, `LineIs`: each NL has a position, and the positions move
with the stream); and a loss that no CLEAR_SAFE has followed leaves the latch set (`LatchInv`). What a
line without its CRs is, is a recursion over its bytes, for which a fact is proved by the least
counterexample.

`BenchProofs`, about the ingest boundary and the composition of runner, encoder and pipeline:

* `FramesWaitInOrder`. The queue is sorted by ids below the last one taken; the policy takes a
  greater one, and either end may give way (`AppendKeepsOrder`, `TailKeepsOrder`).
* `ObjectsAreSentOnce`, from `IssuedInv`: an object whose key was never issued was never sent. The
  lemma `SendsUnderKey` is the one place where the gates and the fallback are looked into.
* `PassIsEarned`, by counting, from `CountInv`: as long as no window was missed, the keys issued are as
  many as the entries that expect a reject, and the objects owed to the MCU, without those the
  cycle has still to handle (`Settled`), are no more than the expected entries without
  acknowledgment. A detection that was handled adds to both sides at once (`OneCounted`); no other
  step adds anything (`NothingCounted`). Two facts carry it: each detection still to be handled has a
  key of its own (`KeysInv`, from the rising ids of the source's frames and the unique objects of a
  frame, `BenchAssumption`), and the decisions of a frame do not change while it is handled
  (`DecisionsStay`, since every reload is behind it). The ratio the scenarios test then bounds what is
  owed (`ToleratedShare`), for every percentage.
* `TravelIsConserved`, from `FramesInv` and `TravelInv`: quotient and remainder of each window add up
  (`WindowIsConserved`). That nothing is lost without dropout is one of its conjuncts, which the
  run, with half of the pulses dropped, does not exercise.
* `JobsAreCalibrated`, from `CalibrationInv`: the version remembered and the version in use never run
  ahead of the file nor behind the version at the cycle's start once the look is past; an
  inconsistent file leaves no calibration, and then no command.
* `StagesGoTogether`, from `StageInv`, which says of every stage what the pipeline and the queue hold.
* `TriggersStayBehind`, from `AheadInv`: the encoder's last pulse is not later than the frame in hand,
  nor than any to come. Pulses are emitted inside a window, whose end is the frame's time
  (`StampInWindow`, `Scaled`); a window that would start after its end is clamped and emits none.

`LiveProofs`: `DevicesAreClosed`, from what is open in each stage (`DevicesInv`), and
`RepeatsAreBounded`, from the relation between the guard's counter, which counts repeats, and the
frames acted on (`RepeatsInv`). Four more:

* `WindowKeepsFile`, from `ProfilesInv`: whatever the window holds can be saved and loaded again, since
  added and cloned names are new, a deleted profile leaves another one, and the selected one is
  chosen among those left.
* `TraceKeepsUp`, from `TracedInv`: jobs sent and not traced, and jobs still to send, are together no
  more than the detections of the frame, counted through the set of positions still to send.
* `DarkNeverSends`, from `DarkInv`: once a frame was decided, a job of it means that its metrics passed
  `CaptureFault`. That dark metrics do not (`DarkIsFault`) is the code's own arithmetic, nonlinear in the
  gain: the mean of clipped levels is bounded by that of the levels themselves.
* `ParserPlacesLines`, from `ParserInv`: the stack holds the blocks that the next line could still be put
  into, outermost first (`StackInv`); popping leaves those indented less (`OpenAround`), they are as
  many as the nesting counts (`OpenCounted`) and the top is the innermost (`TopIsInnermost`). So the
  checks of a line on the stack refuse it exactly when its indentation gives it no place in the
  document (`RefusedIsMisplaced`).

`MockProofs`: `CopyStaysCurrent` and `MockImplementsModeQueue`. The mock builds requests and hands
them to the endpoint, so each of its commands is a step of `Host` and keeps `HostInv` by the lemmas
of `HostProofs` (`CommandStep`). Two things are not commands and are proved apart: `StepQueue`,
which writes the endpoint's fields from outside (`StepQueueStep`: the invariant holds afterwards
and the abstract queue sees a drain), and the state the constructor leaves after its own handshake
(`MockInitInv`).

`ControllerProofs`: `QueuesStayBounded` and `TimerAlwaysFollowsRun`, from `BenchInv`. At rest the
timer says little about the calls that made it so; the invariant says that timer and state agree in
every step, and that the stack of the UI thread has one of five shapes (`StackOK`: empty, a slot, a
slot in a wait, and the queue drain in its wait with the action slot over it, waiting or not). A
wait may change the state machine under its caller, so each return is one of two lemmas, `PopStack`
and `PopTwo`, and each entry one, `EnterStep`. What the workers hand over (frames, batches, events)
is typed queue by queue, because a queue that drops its oldest place must still hold what it said.

`NothingDispatchedInSafe` is an action property, from `SafeInv`: a mock in SAFE mode has its fault state
SAFE, by which it refuses every job (`SendServes`), and the mock of a controller in SAFE is in SAFE or
in AUTO, since SAFE is entered after a SET_MODE that a mock never refuses and left by the only other
one (`SetModeObeyed`, `SafeCommanded`).

Every safety property of the passing runs is stated by a theorem. Only model-checked: liveness under
fairness (`CallReturns`, `UiComesToRest`, `ReplayEnds`, `RunEnds`), which is out of the prover's reach
like ENABLED. No module uses RECURSIVE operators.

## 7. Not modelled

* Wire text, CRC, logging, telemetry formatting, floating-point timing, image processing behind
  the levels of a picture, and reports.
* `scheduler/scheduler.py` and `deploy/actuator_timing.py`: stateless arithmetic whose results are
  logged and not sent.
* `bench/esp32_transport.py`, which sets defaults and delegates; `firmware/serial_buffer.py`, which
  nothing in the program fills; the views (`gui/bench_app/app.py`), the test launcher
  (`ui_test_runner/`), the integration stub, which nothing imports; datasets, training and
  inference, whose output the running system does not load; `bench/scenario_runner.py`.
* The MCU watchdog: `watchdog_expired` has no caller, so it has no effect to model
  (`docs/mcu_target_constraints.md:18` asks for a transition to SAFE).
* Encoder wrap-around at 2^31 ticks: the instance keeps ticks within half the range.
* Two threads inside one transport object: the state of `SerialLink` would be needed twice.
* The ranges of the configuration's fields: a field out of range is a document that is refused.

## 8. Plan

Done: the endpoint with its abstract specification and proofs; both transports with theirs; the
firmware's heap, scheduler and line protocol, with theirs; the ingest boundary, encoder, pipeline, runner and command line;
the operator application; configuration, profiles, detection and live runtime.

Left: a transport object shared by two threads; `scenario_runner`; the field ranges of the
configuration.

## 9. Running

    tlc -workers 2 -config MCHost.cfg MCHost
    tlapm HostProofs.tla

Every cfg names its specification and properties; `PROJECT.json` pairs cfgs with modules. The
longest runs (`serial_link`, `serial_sessions`, `bench_controller`) take up to three minutes each.
