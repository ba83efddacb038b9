--------------------------- MODULE RejectProfiles ---------------------------
(***************************************************************************)
(* The reject profiles file (src/coloursorter/eval/reject_profiles.py) and *)
(* the window that edits it (gui/bench_app/reject_profile_manager.py).     *)
(*                                                                         *)
(* Saving is two steps, for write_text empties the file before it fills    *)
(* it and the readers are other processes.  A threshold is counted in      *)
(* halves of a percent, the spin boxes of the window in whole percents.    *)
(***************************************************************************)
EXTENDS Integers, SequencesExt

CONSTANTS
  Keys,         (* REJECTION_KEYS                                          *)
  DefaultName, DefaultThresholds,  (* default_profile                      *)
  NewNames,     (* names an operator types                                 *)
  SpinValues,   (* values an operator sets, in percents                    *)
  Files,        (* what the file may be when the processes start           *)
  MaxOperations (* bound: operations in the window                          *)

VARIABLES
  file,      \* [kind, profiles, selected]
  window,    \* [open, profiles, selected, current]
  saving,    \* no, truncate or write: where the window is in saving
  operations, \* operations made in the window
  overwritten \* another process has written the file since the window has

profileVars == <<file, window, saving, operations, overwritten>>

Saved(profiles, selected) == [kind |-> "mapping", profiles |-> profiles, selected |-> selected]
Missing == [kind |-> "missing"]
Empty   == [kind |-> "empty"]

\* The profiles that may be read or made.
AllNames   == {DefaultName} \cup NewNames
                \cup UNION {{f.profiles[i].name : i \in 1..Len(f.profiles)} :
                              f \in {g \in Files : g.kind = "mapping"}}
AllProfiles == [name : AllNames, thresholds : [Keys -> Int]]

ASSUME ProfilesAssumption ==
  /\ DefaultThresholds \in [Keys -> Int] /\ SpinValues \subseteq Int
  /\ \A f \in Files : f.kind = "mapping" => f.profiles \in Seq(AllProfiles)

DefaultProfile == [name |-> DefaultName, thresholds |-> DefaultThresholds]
DefaultFile    == Saved(<<DefaultProfile>>, DefaultName)

Names(profiles)  == {profiles[i].name : i \in 1..Len(profiles)}
Unique(profiles) ==
  \A i, j \in 1..Len(profiles) : profiles[i].name = profiles[j].name => i = j
PlaceOf(profiles, name) == CHOOSE i \in 1..Len(profiles) : profiles[i].name = name
Profile(profiles, name) == profiles[PlaceOf(profiles, name)]

\* load_reject_profiles of a file that is there: what is not a mapping, or has
\* an invalid or a repeated profile, is a RejectProfileValidationError.
Loadable(f)     == f.kind = "mapping" /\ Unique(f.profiles)
LoadedProfiles(f) == IF f.profiles = <<>> THEN <<DefaultProfile>> ELSE f.profiles
LoadedSelected(f) ==
  IF f.selected \in Names(LoadedProfiles(f)) THEN f.selected ELSE LoadedProfiles(f)[1].name

\* selected_thresholds, and the fallback of its callers.
ThresholdsOf(f) ==
  IF Loadable(f) THEN Profile(LoadedProfiles(f), LoadedSelected(f)).thresholds
  ELSE DefaultThresholds

\* save_reject_profiles saves what it could load again and raises otherwise.
Saveable(profiles, selected) ==
  profiles # <<>> /\ Unique(profiles) /\ selected \in Names(profiles)

-----------------------------------------------------------------------------
(* The window.                                                             *)

\* int(round(value)): halves go to the even side.
Rounded(halves) ==
  IF halves % 4 = 3 THEN (halves + 1) \div 2 ELSE halves \div 2

\* The spin boxes of the current profile.
Spins == LET shown == Profile(window.profiles, window.current) IN
           [key \in Keys |-> Rounded(shown.thresholds[key])]

NoWindow == [open |-> FALSE]

Window(profiles, selected, current) ==
  [open |-> TRUE, profiles |-> profiles, selected |-> selected, current |-> current]

ProfilesInit == file \in Files /\ window = NoWindow /\ saving = "no" /\ operations = 0
  /\ overwritten = FALSE

\* The constructor; without a file it writes the default one, and a file it
\* cannot load is the end of it.
OpenWindow ==
  /\ ~window.open
  /\ \/ /\ file = Missing
        /\ window' = Window(<<DefaultProfile>>, DefaultName, DefaultName) /\ saving' = "truncate"
     \/ /\ file # Missing /\ Loadable(file)
        /\ LET selected == LoadedSelected(file) IN
             window' = Window(LoadedProfiles(file), selected, selected)
        /\ UNCHANGED saving
  /\ overwritten' = FALSE
  /\ UNCHANGED <<file, operations>>

\* What every operation ends with: the list shown again with a current
\* profile, and _persist, whose validation error is a message box.
Edited(profiles, selected, current) ==
  /\ window.open /\ saving = "no" /\ operations < MaxOperations
  /\ window' = Window(profiles, selected, current)
  /\ saving' = IF Saveable(profiles, selected) THEN "truncate" ELSE "no"
  /\ operations' = operations + 1
  /\ UNCHANGED <<file, overwritten>>

\* A click on a profile of the list.
ShowProfile ==
  /\ window.open /\ saving = "no"
  /\ \E name \in Names(window.profiles) : window' = Window(window.profiles, window.selected, name)
  /\ UNCHANGED <<file, saving, operations, overwritten>>

\* _update_current_thresholds: every threshold is taken from its spin box.
SetThreshold ==
  \E key \in Keys, value \in SpinValues :
    LET updated == [k \in Keys |-> 2 * IF k = key THEN value ELSE Spins[k]]
        renewed == [i \in 1..Len(window.profiles) |->
                      IF window.profiles[i].name = window.current
                      THEN [window.profiles[i] EXCEPT !.thresholds = updated]
                      ELSE window.profiles[i]]
    IN /\ window.open /\ value # Spins[key]
       /\ Edited(renewed, window.selected, window.current)

NewProfile(name, thresholds) ==
  /\ name \notin Names(window.profiles)
  /\ Edited(Append(window.profiles, [name |-> name, thresholds |-> thresholds]),
            window.selected, name)

AddProfile ==
  window.open /\ \E name \in NewNames : NewProfile(name, [key \in Keys |-> 100])

CloneProfile ==
  /\ window.open
  /\ \E name \in NewNames :
       NewProfile(name, Profile(window.profiles, window.current).thresholds)

\* Mutant: the profile selected stays selected when it is deleted.
StaysSelected(rest) == window.selected

SelectedAfter(rest) ==
  IF window.selected = window.current THEN rest[1].name ELSE window.selected

DeleteProfile ==
  /\ window.open /\ Len(window.profiles) > 1
  /\ LET rest == RemoveAt(window.profiles, PlaceOf(window.profiles, window.current)) IN
       Edited(rest, SelectedAfter(rest), rest[1].name)

SelectActive ==
  window.open /\ Edited(window.profiles, window.current, window.current)

\* file_path.write_text.
SaveProfiles ==
  /\ \/ saving = "truncate" /\ file' = Empty /\ saving' = "write"
     \/ saving = "write" /\ file' = Saved(window.profiles, window.selected) /\ saving' = "no"
  /\ overwritten' = FALSE
  /\ UNCHANGED <<window, operations>>

\* For a process that has read what it wants of the file: nothing is kept.
ForgetProfiles ==
  /\ file' = Missing /\ window' = NoWindow /\ saving' = "no" /\ operations' = 0
  /\ overwritten' = FALSE

OperatorSteps ==
  \/ OpenWindow \/ ShowProfile \/ SetThreshold \/ AddProfile \/ CloneProfile
  \/ DeleteProfile \/ SelectActive \/ SaveProfiles

-----------------------------------------------------------------------------
\* Between two operations the file loads back to the profiles and the
\* selection of the window, one of whose profiles is current: no sequence of
\* operations makes the saving fail behind the operator's back.
\* A process that found no file may overwrite it once.
WindowAndFileAgree ==
  window.open /\ saving = "no" /\ ~overwritten =>
    /\ Loadable(file)
    /\ LoadedProfiles(file) = window.profiles /\ LoadedSelected(file) = window.selected
    /\ window.current \in Names(window.profiles)
=============================================================================
