------------------------------- MODULE LiveRun -------------------------------
(***************************************************************************)
(* The live runtime (src/coloursorter/runtime/live_runner.py), one process *)
(* from its constructor to its end: the configuration, the reject          *)
(* thresholds, the startup diagnostics and their gate, and the loop that   *)
(* reads a frame, refuses a stale one, detects, decides, sends and traces. *)
(* Beside it an operator edits the reject profiles and the calibration,    *)
(* and the camera may freeze.                                              *)
(*                                                                         *)
(* Time is not counted: two frames are apart by nothing, by less than      *)
(* max_frame_staleness_ms, or by more.                                     *)
(***************************************************************************)
EXTENDS RuntimeConfig, RejectProfiles, Detection, Pipeline

CONSTANTS
  Pictures,     (* what the camera may show                                *)
  ScoreKey,     (* the key of the threshold scores are compared with       *)
  MaxRepeats,   (* MAX_REPEATED_FRAMES                                     *)
  CycleLimits   (* max_cycles, Unlimited for None                          *)

\* Levels are those of an 8-bit picture.
ASSUME LiveAssumption ==
  /\ MaxRepeats \in Nat /\ Providers \subseteq DetectionProviders
  /\ \A p \in Pictures : /\ p.peak \in 0..255 /\ p.base \in 0..255 /\ p.share \in 0..100
                         /\ Len(p.regions) \in Nat

VARIABLES
  stage,               \* where the process is
  config, thresholds,  \* what the constructor has read
  passed,              \* startup_diagnostics so far
  camera, port, trace, \* BOOLEAN: open
  guard,               \* FrameFreshnessGuard: [started, picture, repeats]
  picture, metrics,    \* the frame under way and the metrics of the detector
  jobs, untraced,      \* objects still to be sent; number sent and not yet traced
  left,                \* cycles left of max_cycles, the argument of run
  result,              \* how the run will end
  frozen,              \* the camera repeats its last picture
  acted                \* cycles in a row acted on one picture, up to MaxRepeats + 2

startVars   == <<config, thresholds, passed>>
deviceVars  == <<camera, port, trace>>
frameVars   == <<guard, picture, metrics, acted>>
wireVars    == <<jobs, untraced>>
loopVars    == <<left, result>>
liveVars == <<configVars, profileVars, fileVars, pipelineVars, stage, startVars, deviceVars,
              frameVars, wireVars, loopVars, frozen>>

Unlimited == -1
NoPicture == [regions |-> <<>>]
NoConfig  == [mode |-> "none", provider |-> "none"]
Ended     == {"raised", "failed", "done"}

LiveInit ==
  /\ ConfigInit /\ ProfilesInit /\ PipelineInit
  /\ stage = "config" /\ config = NoConfig /\ thresholds = DefaultThresholds /\ passed = FALSE
  /\ camera = FALSE /\ port = FALSE /\ trace = FALSE
  /\ guard = [started |-> FALSE, picture |-> NoPicture, repeats |-> 0]
  /\ picture = NoPicture /\ metrics = NoMetrics /\ acted = 0
  /\ jobs = {} /\ untraced = 0
  /\ left = Unlimited /\ result = "none" /\ frozen = FALSE

\* The parts of the state the steps below leave alone.
outside   == <<profileVars, fileVars, frozen>>
devices   == <<fileVars, pipelineVars, deviceVars, frameVars, wireVars, loopVars, frozen>>
beforeRun == <<configVars, startVars>>

-----------------------------------------------------------------------------
(* The constructor.                                                        *)

LoadConfig ==
  /\ stage = "config"
  /\ \/ (ReadLine \/ EndOfDocument) /\ UNCHANGED <<stage, config>>
     \/ \E payload \in Payloads :
          /\ LoadFields(payload)
          /\ config' = (IF Accepted(payload) THEN payload ELSE config)
          /\ stage' = IF Accepted(payload) THEN "profiles" ELSE "raised"
     \/ loading = "refused" /\ stage' = "raised" /\ UNCHANGED <<configVars, config>>
  /\ UNCHANGED <<profileVars, thresholds, passed, devices>>

\* _resolve_runtime_reject_thresholds: without a file the default one is
\* written, which is another look and two more steps.
ModeChecked == IF config.mode = "live" THEN "check_frame" ELSE "raised"

LookForProfiles ==
  /\ stage = "profiles"
  /\ stage' = IF file = Missing THEN "create" ELSE "read"
  /\ UNCHANGED <<configVars, profileVars, startVars, devices>>

CreateProfiles ==
  /\ stage \in {"create", "fill"}
  /\ stage' = IF stage = "create" THEN "fill" ELSE ModeChecked
  /\ file' = IF stage = "create" THEN Empty ELSE DefaultFile
  /\ overwritten' = TRUE
  /\ UNCHANGED <<configVars, window, saving, operations, startVars, devices>>

\* Text that is no YAML is not a RejectProfileValidationError.
ReadProfiles ==
  /\ stage = "read"
  /\ IF file.kind = "broken" THEN stage' = "raised" /\ UNCHANGED thresholds
     ELSE stage' = ModeChecked /\ thresholds' = ThresholdsOf(file)
  /\ UNCHANGED <<configVars, profileVars, config, passed, devices>>

\* _run_startup_diagnostics: the camera is opened, read and released; the
\* built-in detectors have their metadata; any answer to the HEARTBEAT passes,
\* and the transport is closed.  A port that cannot be opened is not caught.
CheckFrame ==
  /\ stage = "check_frame"
  /\ \E captured \in BOOLEAN : passed' = (captured /\ ProfileListed(config))
  /\ stage' = "ping"
  /\ UNCHANGED <<configVars, profileVars, config, thresholds, devices>>

Ping ==
  /\ stage = "ping"
  /\ \/ stage' = "raised" /\ UNCHANGED passed
     \/ stage' = "gate" /\ \E answered \in BOOLEAN : passed' = (passed /\ answered)
  /\ UNCHANGED <<configVars, profileVars, config, thresholds, devices>>

-----------------------------------------------------------------------------
(* run.                                                                    *)

\* The profiles are not read from here on, and are forgotten.
Gate ==
  /\ stage = "gate"
  /\ stage' = IF passed THEN "build" ELSE "failed"
  /\ left' \in CycleLimits
  /\ ForgetProfiles
  /\ UNCHANGED <<beforeRun, fileVars, pipelineVars, deviceVars, frameVars, wireVars, result, frozen>>

\* The pipeline reads its files when it is built, and again in every cycle.
RunPipeline ==
  /\ stage \in {"build", "decide"}
  /\ PipelineSteps
  /\ UNCHANGED <<beforeRun, profileVars, stage, deviceVars, frameVars, wireVars, loopVars, frozen>>

\* The transport is built before the camera is opened, and both before the
\* try block whose end closes them.
OpenPort ==
  /\ stage = "build" /\ at = "idle"
  /\ \/ port' = TRUE /\ stage' = "open_camera"
     \/ stage' = "raised" /\ UNCHANGED port
  /\ UNCHANGED <<beforeRun, outside, pipelineVars, camera, trace, frameVars, wireVars, loopVars>>

BuildRaised ==
  /\ stage = "build" /\ at = "raised" /\ stage' = "raised"
  /\ UNCHANGED <<beforeRun, outside, pipelineVars, deviceVars, frameVars, wireVars, loopVars>>

OpenCamera ==
  /\ stage = "open_camera"
  /\ \/ camera' = TRUE /\ stage' = "open_trace"
     \/ stage' = "raised" /\ UNCHANGED camera
  /\ UNCHANGED <<beforeRun, outside, pipelineVars, port, trace, frameVars, wireVars, loopVars>>

\* Mutant: an exception ends the process where it is raised.
LeaveAtOnce(how) == stage' = how /\ result' = how

\* Every way out of the loop goes through the finally block.
Leave(how) == stage' = "close" /\ result' = how

OpenTrace ==
  /\ stage = "open_trace"
  /\ \/ trace' = TRUE /\ stage' = "loop" /\ UNCHANGED result
     \/ Leave("raised") /\ UNCHANGED trace
  /\ UNCHANGED <<beforeRun, outside, pipelineVars, camera, port, frameVars, wireVars, left>>

\* Mutant: the frame that is one too many is let through.
RepeatsTooLate(shown) == guard.started /\ shown = guard.picture /\ guard.repeats > MaxRepeats

RepeatsTooOften(shown) ==
  guard.started /\ shown = guard.picture /\ guard.repeats + 1 > MaxRepeats

\* Mutant: the digest of the picture is not kept, no picture is a repeat.
NeverRepeated(shown) == 0

RepeatsAfter(shown) ==
  IF guard.started /\ shown = guard.picture THEN guard.repeats + 1 ELSE 0

\* FrameFreshnessGuard.check.
Stale(shown, gap) ==
  \/ guard.started /\ gap = "none"
  \/ guard.started /\ gap = "long" /\ config.staleness = "on"
  \/ RepeatsTooOften(shown)

NextFrame ==
  /\ stage = "loop" /\ left # 0
  /\ \/ Leave("raised") /\ UNCHANGED frameVars
     \/ \E shown \in Pictures, gap \in {"none", "short", "long"} :
          /\ frozen => shown = guard.picture
          /\ IF Stale(shown, gap) THEN Leave("done") /\ UNCHANGED frameVars
             ELSE /\ stage' = "detect" /\ picture' = shown
                  /\ guard' = [started |-> TRUE, picture |-> shown,
                               repeats |-> RepeatsAfter(shown)]
                  /\ acted' = IF guard.started /\ shown = guard.picture
                              THEN (IF acted > MaxRepeats + 1 THEN acted ELSE acted + 1) ELSE 1
                  /\ UNCHANGED <<metrics, result>>
  /\ UNCHANGED <<beforeRun, outside, pipelineVars, deviceVars, wireVars, left>>

LastCycle ==
  /\ stage = "loop" /\ left = 0 /\ Leave("done")
  /\ UNCHANGED <<beforeRun, outside, pipelineVars, deviceVars, frameVars, wireVars, left>>

\* Mutant: the metrics of the previous frame are read.
MetricsBefore(shown) == metrics

MetricsOf(shown) == Metrics(config.provider, shown)

Detect ==
  /\ stage = "detect"
  /\ \/ Leave("raised") /\ UNCHANGED <<metrics, at>>
     \/ stage' = "decide" /\ metrics' = MetricsOf(picture) /\ at' = "lane" /\ UNCHANGED result
  /\ UNCHANGED <<beforeRun, outside, geometry, laneMtime, calibration, calMtime, seen, built,
                 deviceVars, guard, picture, acted, wireVars, left>>

Frame     == [detections |-> Detections(config.provider, picture), width |-> picture.width,
              fault |-> CaptureFault(metrics)]
Threshold == thresholds[ScoreKey]

\* The commands of the frame; a reload that failed or a command out of range
\* raises.
Decide ==
  /\ stage = "decide" /\ at \in {"decide", "raised"}
  /\ at' = "idle"
  /\ IF at = "raised" \/ CommandOutOfRange(Frame, Threshold) THEN Leave("raised") /\ UNCHANGED jobs
     ELSE /\ jobs' = {i \in 1..Len(Frame.detections) : HasCommand(Frame.detections[i], Frame, Threshold)}
          /\ stage' = "send" /\ UNCHANGED result
  /\ UNCHANGED <<beforeRun, outside, geometry, laneMtime, calibration, calMtime, seen, built,
                 deviceVars, frameVars, untraced, left>>

\* The answer of the MCU is not looked at; a transport that fails raises,
\* with the job sent or not.
SendJob ==
  /\ stage = "send" /\ jobs # {}
  /\ \/ jobs' = jobs \ {Min(jobs)} /\ untraced' = untraced + 1 /\ UNCHANGED <<stage, result>>
     \/ untraced' \in {untraced, untraced + 1} /\ Leave("raised") /\ UNCHANGED jobs
  /\ UNCHANGED <<beforeRun, outside, pipelineVars, deviceVars, frameVars, left>>

\* Mutant: a cycle without jobs left to send is not traced.
TracedNothing == untraced

TracedAll == 0

\* The trace entries of the frame's detections, after all its jobs; then the
\* report and the sleep.
EndCycle ==
  /\ stage = "send" /\ jobs = {}
  /\ \/ /\ untraced' = TracedAll /\ stage' = "loop"
        /\ left' = (IF left = Unlimited THEN left ELSE left - 1) /\ UNCHANGED result
     \/ untraced' \in 0..untraced /\ Leave("raised") /\ UNCHANGED left
  /\ UNCHANGED <<beforeRun, outside, pipelineVars, deviceVars, frameVars, jobs>>

Close ==
  /\ stage = "close"
  /\ camera' = FALSE /\ port' = FALSE /\ trace' = FALSE /\ stage' = result
  /\ UNCHANGED <<beforeRun, outside, pipelineVars, frameVars, wireVars, loopVars>>

Live ==
  \/ LoadConfig \/ LookForProfiles \/ CreateProfiles \/ ReadProfiles \/ CheckFrame \/ Ping
  \/ Gate \/ RunPipeline \/ OpenPort \/ BuildRaised \/ OpenCamera \/ OpenTrace
  \/ NextFrame \/ LastCycle \/ Detect \/ Decide \/ SendJob \/ EndCycle \/ Close

-----------------------------------------------------------------------------
(* Beside the process.  The profiles are edited while it still has to read *)
(* them, the files of the pipeline where they are about to be read: edits  *)
(* at other times are told apart by nobody.  Edits of the lane geometry    *)
(* are left to module BenchCycle.                                          *)

Operator ==
  /\ stage \in {"profiles", "create", "fill", "read"}
  /\ OperatorSteps
  /\ UNCHANGED <<configVars, stage, startVars, devices>>

Edit ==
  /\ stage \in {"build", "decide"} /\ at \notin {"idle", "decide", "raised"}
  /\ EditCalibration
  /\ UNCHANGED <<beforeRun, profileVars, stage, deviceVars, frameVars, wireVars, loopVars, frozen>>

CameraFreezes ==
  /\ stage = "loop" /\ guard.started /\ frozen' = ~frozen
  /\ UNCHANGED <<beforeRun, profileVars, fileVars, pipelineVars, stage, deviceVars, frameVars,
                 wireVars, loopVars>>

LiveNext == Live \/ Operator \/ Edit \/ CameraFreezes

LiveSpec == LiveInit /\ [][LiveNext]_liveVars

\* The process has one thread, and what it calls returns.
FairLiveSpec == LiveSpec /\ WF_liveVars(Live)
-----------------------------------------------------------------------------
\* The stages, and what is open in them.
LiveTypeOK ==
  /\ stage \in {"config", "profiles", "create", "fill", "read", "check_frame", "ping", "gate",
                "build", "open_camera", "open_trace", "loop", "detect", "decide", "send", "close"}
                 \cup Ended
  /\ stage \in {"loop", "detect", "decide", "send"} => camera /\ port /\ trace /\ passed
  /\ at \notin {"new", "constructed", "calibration", "load_calibration", "idle", "raised"} =>
       stage = "decide"
  /\ DOMAIN thresholds = Keys
  /\ guard.repeats <= MaxRepeats

\* However the run ends, by an exception, a stale frame or its last cycle,
\* the camera and the trace are closed, and so is the port of a run whose
\* camera could be opened.
NothingLeftOpen == stage \in Ended => ~camera /\ ~trace /\ (port => result = "none")

\* A camera that shows the same picture again and again is acted on for at
\* most MaxRepeats + 1 frames.
FrozenPictureIsBounded == acted <= MaxRepeats + 1

\* In every well-typed state, a run without an exception has traced every job
\* it sent, and one with an exception misses jobs of its last frame only.
TraceAgreesWithWire ==
  /\ LiveTypeOK
  /\ stage \in {"loop", "detect", "decide", "done"} => untraced = 0
  /\ untraced > 0 => untraced <= Len(Frame.detections)

\* With an OpenCV provider nothing is sent for a picture so dark that the
\* exposure gain it needs is more than the capture baseline allows.
Dark(shown) == shown # NoPicture /\ 5 * LumaOf(shown) < 200 * TargetLuma

DarkFramesSendNothing ==
  Normalises /\ config.provider # "model_stub" /\ Dark(picture) => jobs = {}

\* A camera that freezes for good, or a limit on the cycles, ends the run.
RunEnds == <>[]frozen \/ <>(left # Unlimited) => <>(stage \in Ended)
=============================================================================
