------------------------------ MODULE Pipeline ------------------------------
(***************************************************************************)
(* The decision pipeline (src/coloursorter/deploy/pipeline.py) with what   *)
(* it calls: lane geometry and calibration files and their hot reload,     *)
(* the reject rules and the schedule command.                              *)
(*                                                                         *)
(* A file is a version and what reading it gives; anyone may edit it at    *)
(* any time, which is why the look at its modification time and the        *)
(* reading are two steps.  The version stands for the modification time.   *)
(***************************************************************************)
EXTENDS Integers, Sequences

CONSTANTS
  MaxEdits,   (* bound: edits of the two files together                    *)
  LaneWidth   (* width of the lanes of every geometry, in pixels           *)

VARIABLES
  laneFile, calFile,       \* [version, kind]
  geometry, laneMtime,     \* version of the geometry in use, mtime remembered
  calibration, calMtime,   \* NoCalibration after a CalibrationError
  at, seen,                \* step of the pipeline, mtime just looked at
  built                    \* the constructor has returned

fileVars     == <<laneFile, calFile>>
pipelineVars == <<geometry, laneMtime, calibration, calMtime, at, seen, built>>

NoCalibration == -1
LaneKinds == {"good", "invalid"}
CalKinds  == {"good", "tampered", "unreadable"}

PipelineInit ==
  /\ laneFile = [version |-> 0, kind |-> "good"] /\ calFile = [version |-> 0, kind |-> "good"]
  /\ geometry = -1 /\ laneMtime = -1 /\ calibration = NoCalibration /\ calMtime = -1
  /\ at = "new" /\ seen = -1 /\ built = FALSE

EditFile(file, kinds) ==
  /\ laneFile.version + calFile.version < MaxEdits
  /\ \E kind \in kinds : file' = [version |-> file.version + 1, kind |-> kind]

EditGeometry    == EditFile(laneFile, LaneKinds) /\ UNCHANGED <<calFile, pipelineVars>>
EditCalibration == EditFile(calFile, CalKinds) /\ UNCHANGED <<laneFile, pipelineVars>>
EditFiles       == EditGeometry \/ EditCalibration

-----------------------------------------------------------------------------
\* The constructor reads the geometry first and looks at its mtime after.
ConstructGeometry ==
  /\ at = "new"
  /\ \/ laneFile.kind = "good" /\ geometry' = laneFile.version /\ at' = "constructed"
     \/ laneFile.kind = "invalid" /\ at' = "raised" /\ UNCHANGED geometry
  /\ UNCHANGED <<fileVars, laneMtime, calibration, calMtime, seen, built>>

ConstructMtime ==
  /\ at = "constructed"
  /\ laneMtime' = laneFile.version /\ at' = "calibration"
  /\ UNCHANGED <<fileVars, geometry, calibration, calMtime, seen, built>>

\* _reload_lane_geometry_if_changed.
LookAtLane ==
  /\ at = "lane"
  /\ IF laneFile.version = laneMtime THEN at' = "calibration" /\ UNCHANGED seen
     ELSE at' = "load_lane" /\ seen' = laneFile.version
  /\ UNCHANGED <<fileVars, geometry, laneMtime, calibration, calMtime, built>>

LoadLane ==
  /\ at = "load_lane"
  /\ \/ /\ laneFile.kind = "good"
        /\ geometry' = laneFile.version /\ laneMtime' = seen /\ at' = "calibration"
     \/ laneFile.kind = "invalid" /\ at' = "raised" /\ UNCHANGED <<geometry, laneMtime>>
  /\ UNCHANGED <<fileVars, calibration, calMtime, seen, built>>

\* Mutant: the look at the calibration ends the pipeline.
CalibratedForGood == at' = "idle" /\ built' = TRUE

\* _reload_calibration_if_changed, forced by the constructor.
Calibrated == at' = (IF built THEN "decide" ELSE "idle") /\ built' = TRUE

LookAtCalibration ==
  /\ at = "calibration"
  /\ IF built /\ calFile.version = calMtime THEN Calibrated /\ UNCHANGED seen
     ELSE at' = "load_calibration" /\ seen' = calFile.version /\ UNCHANGED built
  /\ UNCHANGED <<fileVars, geometry, laneMtime, calibration, calMtime>>

\* Mutant: an inconsistent file leaves the calibration in use.
KeptOnError == IF calFile.kind = "good" THEN calFile.version ELSE calibration

CalibrationRead == IF calFile.kind = "good" THEN calFile.version ELSE NoCalibration

LoadCalibration ==
  /\ at = "load_calibration"
  /\ \/ /\ calFile.kind # "unreadable"
        /\ calibration' = CalibrationRead /\ calMtime' = seen
        /\ Calibrated
     \/ calFile.kind = "unreadable" /\ at' = "raised" /\ UNCHANGED <<calibration, calMtime, built>>
  /\ UNCHANGED <<fileVars, geometry, laneMtime, seen>>

PipelineSteps == \/ ConstructGeometry \/ ConstructMtime
                 \/ LookAtLane \/ LoadLane \/ LookAtCalibration \/ LoadCalibration

-----------------------------------------------------------------------------
(* Decisions.  A frame has its width and whether its capture is at fault;  *)
(* a detection has the lane its centroid falls in (NoLane when in none), a *)
(* score, the label of the detector, and a trigger position that may be    *)
(* beyond what a command can carry.                                        *)

NoLane == -1

\* rejection_reason_for_object: the score stands for the three measures, one
\* of which rejects at its threshold whatever the label.
Rejects(d, threshold) == d.score >= threshold \/ d.label = "reject"

\* lane_geometry_for_frame: the lanes are stretched to the frame, and a frame
\* that needs more than 2% of it is misaligned.
Misaligned(frame) ==
  50 * (IF frame.width < LaneWidth THEN LaneWidth - frame.width ELSE frame.width - LaneWidth) > LaneWidth

ContextFault(frame) == calibration = NoCalibration \/ Misaligned(frame) \/ frame.fault

\* decision_outcome_for_object, with the faults of the context before it.
Decision(d, frame, threshold) ==
  IF ContextFault(frame) \/ d.lane = NoLane THEN "unknown"
  ELSE IF Rejects(d, threshold) THEN "reject" ELSE "accept"

\* The command of a decision, and build_scheduled_command's range check, whose
\* exception ends the run of the whole frame.
HasCommand(d, frame, threshold) == Decision(d, frame, threshold) = "reject"

CommandOutOfRange(frame, threshold) ==
  \E i \in 1..Len(frame.detections) :
    HasCommand(frame.detections[i], frame, threshold) /\ frame.detections[i].far
=============================================================================
