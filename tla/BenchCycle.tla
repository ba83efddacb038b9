----------------------------- MODULE BenchCycle -----------------------------
(***************************************************************************)
(* The bench runner (src/coloursorter/bench/runner.py) from a payload to   *)
(* the log entries, with the ingest boundary, the encoder and the decision *)
(* pipeline it is built from, and the two ways it is driven: the command   *)
(* line (bench/cli.py), which ends with an evaluation and an exit code,    *)
(* and a caller such as the bench application or a test, which may submit  *)
(* or run frames in any order and goes on after an exception.              *)
(*                                                                         *)
(* Latencies are not measured: a frame may be too old, a stage or a send   *)
(* over its budget, at any time.  Frame i has timestamp i.                 *)
(***************************************************************************)
EXTENDS Ingest, VirtualEncoder, Pipeline, FiniteSets

CONSTANTS
  Drivers,     (* "cli" or "caller"                                        *)
  Fallbacks,   (* safety.detect_timeout_fallback                           *)
  Scenes,      (* what the detector may see: sequences of detections       *)
  Shots,       (* widths and capture faults a frame may have               *)
  Threshold,   (* runtime_reject_thresholds                                *)
  DefaultThreshold,  (* DEFAULT_REJECTION_THRESHOLDS                       *)
  MinReliability,    (* min_reject_reliability, in percent                 *)
  MaxFrames,   (* bound: frame ids                                         *)
  MaxCycles    (* max_cycles, and the bound on a caller's calls            *)

\* The ids of a frame's detections are unique (_validate_detection_output).
ASSUME BenchAssumption ==
  /\ MinReliability \in 0..100
  /\ \A scene \in Scenes :
       /\ Len(scene) \in Nat
       /\ \A i, j \in 1..Len(scene) : scene[i].object = scene[j].object => i = j

VARIABLES
  driver, fallback, status,   \* who runs it, and how far it has come
  next, cycles,               \* frame source, cycles begun
  enc, unemitted,             \* encoder, and the belt travel it has not emitted
  cycle, logs,                \* the cycle under way, what summarize reads of the entries
  issued,                     \* _issued_command_keys
  sends,                      \* jobs sent
  owed,                       \* objects decided to be rejected that the MCU has not queued
  wanted                      \* version of the calibration file at the cycle's start

driverVars  == <<driver, fallback, next, cycles>>
encoderVars == <<enc, unemitted>>
wireVars    == <<issued, sends>>
vars == <<ingestVars, fileVars, pipelineVars, driverVars, status, encoderVars, cycle, logs, owed,
          wireVars, wanted>>

Objects == UNION {{scene[i].object : i \in 1..Len(scene)} : scene \in Scenes}
Keys    == (0..MaxFrames - 1) \X Objects
Free    == [at |-> "free"]
NoLogs  == [safe |-> FALSE, last |-> "none", expected |-> 0, successful |-> 0, missed |-> FALSE]

Init ==
  /\ IngestInit /\ PipelineInit
  /\ driver \in Drivers
  /\ fallback \in (IF driver = "cli" THEN {"SAFE"} ELSE Fallbacks)
  /\ status = IF driver = "cli" THEN "config" ELSE "running"
  /\ next = 0 /\ cycles = 0
  /\ enc = NewEncoder /\ unemitted = 0
  /\ cycle = Free /\ logs = NoLogs /\ owed = {}
  /\ issued = {} /\ sends = [k \in Keys |-> 0]
  /\ wanted = NoCalibration

-----------------------------------------------------------------------------
(* The start of the command line.                                          *)

rest == <<ingestVars, fileVars, pipelineVars, driverVars, encoderVars, cycle, logs, owed, wireVars,
          wanted>>

\* The configuration, when there is one, is loaded, and the scenarios are
\* looked up in it: what is wrong with either is an exception.
Configure ==
  /\ status = "config"
  /\ status' \in {"build", "raised"}
  /\ UNCHANGED rest

\* The pipeline is built between the two; then the transport, the rejection
\* thresholds, the frame source and the detector.
OpenSource ==
  /\ status = "build" /\ built
  /\ status' \in {"running", "raised"}
  /\ UNCHANGED rest

-----------------------------------------------------------------------------
(* The frames.                                                             *)

Ready == status = "running" /\ at = "idle" /\ cycle = Free

\* An exception: the command line ends with it, a caller goes on.
Raise == status' = (IF driver = "cli" THEN "raised" ELSE status) /\ cycle' = Free

SeenFrames(id, previous) ==
  {[id |-> id, timestamp |-> id, previous |-> previous, flaw |-> flaw, detections |-> scene,
    width |-> shot.width, fault |-> shot.fault] :
     flaw \in {"none", "contract"}, scene \in Scenes, shot \in Shots}

\* _run_cycles: the replay source skips images it cannot read, and a source
\* or a detector that fails ends the run.
NextFrame ==
  /\ Ready /\ driver = "cli" /\ cycles < MaxCycles
  /\ \/ \E id \in {next, next + 1} \cap (0..MaxFrames - 1) :
          \E frame \in SeenFrames(id, IF next = 0 THEN 0 ELSE next - 1) :
            /\ cycle' = [at |-> "submit", frame |-> frame]
            /\ next' = id + 1 /\ cycles' = cycles + 1
            /\ UNCHANGED status
     \/ Raise /\ UNCHANGED <<next, cycles>>
  /\ UNCHANGED <<ingestVars, fileVars, pipelineVars, driver, fallback, encoderVars, logs, owed,
                 wireVars, wanted>>

\* A caller: process_ingest_payload, or run_cycle itself.
Call ==
  /\ Ready /\ driver = "caller" /\ cycles < MaxCycles
  /\ \E id \in 0..MaxFrames - 1 : \E previous \in 0..id : \E frame \in SeenFrames(id, previous) :
       \E way \in {"submit", "run"} : cycle' = [at |-> way, frame |-> frame]
  /\ cycles' = cycles + 1
  /\ UNCHANGED <<ingestVars, fileVars, pipelineVars, driver, fallback, status, next, encoderVars,
                 logs, owed, wireVars, wanted>>

SubmitFrame ==
  /\ cycle.at = "submit"
  /\ \/ Submit(cycle.frame) /\ cycle' = [at |-> "queued"] /\ UNCHANGED status
     \/ Refuse(cycle.frame) /\ Raise
  /\ UNCHANGED <<fileVars, pipelineVars, driverVars, encoderVars, logs, owed, wireVars, wanted>>

TakeFrame ==
  /\ cycle.at = "queued"
  /\ NextCycleInput
  /\ cycle' = [at |-> "run", frame |-> Head(queue)]
  /\ UNCHANGED <<fileVars, pipelineVars, driverVars, status, encoderVars, logs, owed, wireVars, wanted>>

\* run_cycle up to the pipeline: the encoder is moved on, and the pipeline
\* starts with a look at its files.
BeginCycle ==
  /\ cycle.at = "run"
  /\ LET f == cycle.frame  travel == Travel(f.previous, f.timestamp) IN
       /\ enc' = EncoderAfter(enc, f.previous, f.timestamp)
       /\ unemitted' = unemitted + travel - KeptPulses(Pulses(enc, travel)) * UnitsPerPulse
       /\ cycle' = [at |-> "decide", frame |-> f, again |-> FALSE]
  /\ at' = "lane" /\ wanted' = calFile.version
  /\ UNCHANGED <<ingestVars, fileVars, geometry, laneMtime, calibration, calMtime, seen, built,
                 driverVars, status, logs, owed, wireVars>>

Reload ==
  /\ status \in {"build", "running"} /\ PipelineSteps
  /\ UNCHANGED <<ingestVars, driverVars, status, encoderVars, cycle, logs, owed, wireVars, wanted>>

\* Edits fall where they can be told from earlier and later ones: before a
\* cycle and between the steps of the pipeline.
Edit ==
  /\ status \in {"build", "running"} /\ (cycle.at = "run" \/ at \notin {"idle", "decide", "raised"})
  /\ EditFiles
  /\ UNCHANGED <<ingestVars, driverVars, status, encoderVars, cycle, logs, owed, wireVars, wanted>>

\* A reload that raised: without a constructed pipeline nothing runs.
ReloadRaised ==
  /\ at = "raised" /\ status \in {"build", "running"}
  /\ IF built THEN at' = "idle" /\ Raise
     ELSE status' = "raised" /\ UNCHANGED <<at, cycle>>
  /\ UNCHANGED <<ingestVars, fileVars, geometry, laneMtime, calibration, calMtime, seen, built,
                 driverVars, encoderVars, logs, owed, wireVars, wanted>>

\* A reload that raised a TypeError, as values of the wrong type in a file do,
\* is taken for a pipeline with an older interface: it runs once more, with
\* neither the thresholds nor the capture fault.
RunAgain ==
  /\ at = "raised" /\ cycle.at = "decide" /\ ~cycle.again
  /\ at' = "lane" /\ cycle' = [cycle EXCEPT !.again = TRUE]
  /\ UNCHANGED <<ingestVars, fileVars, geometry, laneMtime, calibration, calMtime, seen, built,
                 driverVars, status, encoderVars, logs, owed, wireVars, wanted>>

FrameGiven     == IF cycle.again THEN [cycle.frame EXCEPT !.fault = FALSE] ELSE cycle.frame
ThresholdGiven == IF cycle.again THEN DefaultThreshold ELSE Threshold

Command(d) == HasCommand(d, FrameGiven, ThresholdGiven)
KeyOf(d)   == <<cycle.frame.id, d.object>>

\* The keys the frame's detections from the n-th on are to be rejected under.
RejectsFrom(n) ==
  LET seenNow == cycle.frame.detections IN
    {KeyOf(seenNow[i]) : i \in {j \in n..Len(seenNow) : Command(seenNow[j])}}

\* The frame's decisions; a command out of range loses them all.
Decide ==
  /\ at = "decide" /\ at' = "idle"
  /\ IF CommandOutOfRange(FrameGiven, ThresholdGiven) THEN Raise /\ UNCHANGED owed
     ELSE /\ \E late \in BOOLEAN, over \in {"none", "detect", "other"} :
               cycle' = [at |-> "send", frame |-> cycle.frame, again |-> cycle.again,
                         i |-> 1, late |-> late, over |-> over]
          /\ owed' = owed \cup RejectsFrom(1)
          /\ UNCHANGED status
  /\ UNCHANGED <<ingestVars, fileVars, geometry, laneMtime, calibration, calMtime, seen, built,
                 driverVars, encoderVars, logs, wireVars, wanted>>

-----------------------------------------------------------------------------
(* One detection of the cycle.                                             *)

\* Mutant: keys are not looked up.
NeverDuplicate(d) == FALSE

Duplicate(d) == KeyOf(d) \in issued

RejectsOnTimeout(d) == cycle.over = "detect" /\ fallback = "REJECT" /\ d.lane # NoLane

\* What is left of the command after the key, age and staleness gates, and
\* after the budget gate.
Kept(d)     == Command(d) /\ ~Duplicate(d) /\ ~cycle.late
ToBeSent(d) == IF cycle.over = "none" THEN Kept(d) ELSE RejectsOnTimeout(d)

Missed(d)   == cycle.late /\ ~RejectsOnTimeout(d)
Faulty(d)   == cycle.late \/ cycle.over # "none"

\* The fallback builds a command of its own when the gates have taken the
\* pipeline's, from the position 0 of a frame without calibration.
FallbackOutOfRange(d) ==
  RejectsOnTimeout(d) /\ ~Kept(d) /\ d.far /\ calibration # NoCalibration

\* Mutant: only what was sent is expected.
ExpectedIfSent(d, sent) == Command(d) /\ ~Missed(d) /\ sent

\* An expected reject of summarize.
Expected(d, sent) == Command(d) /\ ~Missed(d)

\* The entry of a detection, as the command line's summary will read it.
Log(d, sent, acked, code) ==
  logs' = IF driver # "cli" THEN logs
          ELSE [safe |-> logs.safe \/ code = "NACK_SAFE", last |-> code,
                expected |-> logs.expected + (IF Expected(d, sent) THEN 1 ELSE 0),
                successful |-> logs.successful + (IF Expected(d, sent) /\ sent /\ acked THEN 1 ELSE 0),
                missed |-> logs.missed \/ Missed(d)]

\* An answer over the send budget is logged as a NACK, whatever it was.
IsAcknowledged(code, overBudget) == code = "ACK" /\ ~overBudget

\* The transport answers, in time or not, or fails with the job queued or not.
Send(d) ==
  /\ sends' = [sends EXCEPT ![KeyOf(d)] = @ + 1]
  /\ \/ \E code \in {"ACK", "NACK_SAFE", "NACK"}, overBudget \in BOOLEAN :
          /\ owed' = IF code = "ACK" THEN owed \ {KeyOf(d)} ELSE owed
          /\ Log(d, TRUE, IsAcknowledged(code, overBudget), IF overBudget THEN "NACK_SAFE" ELSE code)
          /\ cycle' = [cycle EXCEPT !.i = @ + 1]
          /\ UNCHANGED status
     \/ owed' \in {owed, owed \ {KeyOf(d)}} /\ Raise /\ UNCHANGED logs

HandleDetection ==
  /\ cycle.at = "send" /\ cycle.i <= Len(cycle.frame.detections)
  /\ LET d == cycle.frame.detections[cycle.i] IN
       /\ issued' = IF Command(d) THEN issued \cup {KeyOf(d)} ELSE issued
       /\ CASE ToBeSent(d) /\ ~FallbackOutOfRange(d) -> Send(d)
            [] ToBeSent(d) /\ FallbackOutOfRange(d) -> Raise /\ UNCHANGED <<sends, owed, logs>>
            [] ~ToBeSent(d) ->
                 /\ Log(d, FALSE, FALSE, IF Faulty(d) THEN "NACK_SAFE" ELSE "ACK")
                 /\ cycle' = [cycle EXCEPT !.i = @ + 1]
                 /\ UNCHANGED <<sends, owed, status>>
  /\ UNCHANGED <<ingestVars, fileVars, pipelineVars, driverVars, encoderVars, wanted>>

EndCycle ==
  /\ cycle.at = "send" /\ cycle.i > Len(cycle.frame.detections)
  /\ cycle' = Free
  /\ UNCHANGED <<ingestVars, fileVars, pipelineVars, driverVars, status, encoderVars, logs, owed,
                 wireVars, wanted>>

-----------------------------------------------------------------------------
(* The end of the command line: summarize, the scenarios, the artifacts    *)
(* and the exit code.                                                      *)

Recovered == logs.safe /\ logs.last = "ACK"

\* reject_reliability against what a scenario asks for, which is met when no
\* reject was expected.
Reliable == 100 * logs.successful >= MinReliability * logs.expected

\* The scenarios require no missed window, the reliability and a jitter
\* alike; their round trips and jitters are not measured here.
Scenarios == {"nominal", "latency_stress", "fault_to_safe", "recovery_flow"}
RequiresSafe(scenario)     == scenario \in {"fault_to_safe", "recovery_flow"}
RequiresRecovery(scenario) == scenario = "recovery_flow"

Passes(scenario, inTime) ==
  /\ inTime
  /\ RequiresSafe(scenario) => logs.safe
  /\ RequiresRecovery(scenario) => Recovered
  /\ Reliable /\ ~logs.missed

\* The source is exhausted or the cycles are used up.
Evaluate ==
  /\ Ready /\ driver = "cli"
  /\ \E scenario \in Scenarios, inTime \in BOOLEAN :
       status' = IF Passes(scenario, inTime) THEN "passing" ELSE "failing"
  /\ UNCHANGED rest

\* The directory of the artifacts must be new; it is named by the second.
WriteArtifacts ==
  /\ status \in {"passing", "failing"}
  /\ \/ status' = IF status = "passing" THEN "passed" ELSE "failed"
     \/ status' = "raised"
  /\ UNCHANGED rest

-----------------------------------------------------------------------------
Next == \/ Edit \/ Reload \/ ReloadRaised \/ RunAgain
        \/ NextFrame \/ Call \/ SubmitFrame \/ TakeFrame \/ BeginCycle
        \/ Decide \/ HandleDetection \/ EndCycle
        \/ Configure \/ OpenSource \/ Evaluate \/ WriteArtifacts

Spec == Init /\ [][Next]_vars

-----------------------------------------------------------------------------
\* The steps of the cycle and of the pipeline go together: a reload runs only
\* inside the constructor or between the beginning of a cycle and its
\* decisions, and a cycle that is over has left no frame behind.
CycleTypeOK ==
  /\ at \in {"lane", "load_lane", "decide"} => cycle.at = "decide"
  /\ at \in {"new", "constructed"} => ~built
  /\ built => (at = "raised" \/ (cycle.at = "decide") = (at # "idle"))
  /\ cycle.at = "free" => queue = <<>>

\* Exit code 0 is earned: of the objects a command was made for, at most the
\* share the scenarios tolerate (one in a hundred) is not in the queue of the
\* MCU, whatever was too old, late, refused, over budget or decided twice on
\* the way.  The code compares counts of its log entries; this speaks of the
\* objects themselves.
PassMeansRejectsAreQueued ==
  status = "passed" =>
    100 * Cardinality(owed) <= (100 - MinReliability) * Cardinality(issued)

\* With the SAFE fallback an object of a frame is sent at most once, however
\* the frame comes in and whatever became of the first attempt.
NoObjectSentTwice == fallback = "SAFE" => \A k \in Keys : sends[k] <= 1

\* With the SAFE fallback a job on the wire was positioned with the
\* calibration the file held when its frame's cycle began, or a later one: an
\* edit is not missed, and a file found inconsistent stops the sending.
SentWithCurrentCalibration ==
  [][sends' # sends /\ fallback = "SAFE" => calibration >= wanted]_vars

\* The encoder emits what the belt has travelled and no more, over windows
\* that overlap, repeat or are empty; without dropout none is lost.
PulsesAreConserved ==
  /\ enc.accumulator <= unemitted
  /\ UnitsKept = UnitsPerPulse /\ EncoderFault # "missing_pulses" => enc.accumulator = unemitted

\* A trigger is projected from a pulse of the past: no later than the
\* latest frame's own time.
TriggerIsNotAhead ==
  cycle.at \in {"decide", "send"} /\ driver = "cli" =>
    TriggerGeneration(enc, cycle.frame.previous) <= cycle.frame.timestamp * Rate
=============================================================================
