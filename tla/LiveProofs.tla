----------------------------- MODULE LiveProofs -----------------------------
(***************************************************************************)
(* Proofs about module LiveRun for every configuration, every set of       *)
(* pictures, profiles and edits, and every number of repeated frames.      *)
(***************************************************************************)
EXTENDS LiveRun, WellFoundedInduction, FiniteSetTheorems, TLAPS

Starting == {"config", "profiles", "create", "fill", "read", "check_frame", "ping", "gate", "build"}
InLoop   == {"loop", "detect", "decide", "send"}

\* What is open in a stage: the devices are opened in order, and the result
\* is chosen on the way to the finally block.
DevicesInv ==
  /\ stage \in Starting \cup {"open_camera", "open_trace", "close"} \cup InLoop \cup Ended
  /\ stage \in Starting \cup {"open_camera"} => ~camera /\ ~trace /\ result = "none"
  /\ stage = "close" => result \in {"raised", "done"}
  /\ NothingLeftOpen

\* The guard counts the frames after the first of a picture, `acted` all.
RepeatsInv ==
  /\ guard.repeats \in 0..MaxRepeats
  /\ acted = IF guard.started THEN guard.repeats + 1 ELSE 0

-----------------------------------------------------------------------------
LEMMA DevicesInitially == LiveInit => DevicesInv
BY DEF LiveInit, DevicesInv, NothingLeftOpen, Starting, InLoop, Ended

\* The constructor opens nothing that stays open.
LEMMA ConstructorKeepsDevices ==
  ASSUME DevicesInv,
         LoadConfig \/ LookForProfiles \/ CreateProfiles \/ ReadProfiles \/ CheckFrame \/ Ping \/ Gate
  PROVE  DevicesInv'
<1>1. CASE LoadConfig
  BY <1>1 DEF LoadConfig, DevicesInv, NothingLeftOpen, Starting, InLoop, Ended, devices, deviceVars, loopVars
<1>2. CASE LookForProfiles
  BY <1>2 DEF LookForProfiles, DevicesInv, NothingLeftOpen, Starting, InLoop, Ended, devices, deviceVars, loopVars
<1>3. CASE CreateProfiles
  BY <1>3 DEF CreateProfiles, ModeChecked, DevicesInv, NothingLeftOpen, Starting, InLoop, Ended, devices,
              deviceVars, loopVars
<1>4. CASE ReadProfiles
  BY <1>4 DEF ReadProfiles, ModeChecked, DevicesInv, NothingLeftOpen, Starting, InLoop, Ended, devices,
              deviceVars, loopVars
<1>5. CASE CheckFrame
  BY <1>5 DEF CheckFrame, DevicesInv, NothingLeftOpen, Starting, InLoop, Ended, devices, deviceVars, loopVars
<1>6. CASE Ping
  BY <1>6 DEF Ping, DevicesInv, NothingLeftOpen, Starting, InLoop, Ended, devices, deviceVars, loopVars
<1>7. CASE Gate
  BY <1>7 DEF Gate, DevicesInv, NothingLeftOpen, Starting, InLoop, Ended, deviceVars
<1> QED BY <1>1, <1>2, <1>3, <1>4, <1>5, <1>6, <1>7

\* Opening fails before its device is open, or ends in the finally block.
LEMMA OpeningKeepsDevices ==
  ASSUME DevicesInv, RunPipeline \/ OpenPort \/ BuildRaised \/ OpenCamera \/ OpenTrace
  PROVE  DevicesInv'
<1>1. CASE RunPipeline
  BY <1>1 DEF RunPipeline, DevicesInv, NothingLeftOpen, deviceVars, loopVars
<1>2. CASE OpenPort
  BY <1>2 DEF OpenPort, DevicesInv, NothingLeftOpen, Starting, InLoop, Ended, loopVars
<1>3. CASE BuildRaised
  BY <1>3 DEF BuildRaised, DevicesInv, NothingLeftOpen, Starting, InLoop, Ended, deviceVars, loopVars
<1>4. CASE OpenCamera
  BY <1>4 DEF OpenCamera, DevicesInv, NothingLeftOpen, Starting, InLoop, Ended, loopVars
<1>5. CASE OpenTrace
  BY <1>5 DEF OpenTrace, Leave, DevicesInv, NothingLeftOpen, Starting, InLoop, Ended
<1> QED BY <1>1, <1>2, <1>3, <1>4, <1>5

\* The loop ends through the finally block only.
LEMMA LoopKeepsDevices ==
  ASSUME DevicesInv, NextFrame \/ LastCycle \/ Detect \/ Decide \/ SendJob \/ EndCycle \/ Close
  PROVE  DevicesInv'
<1>1. CASE NextFrame
  BY <1>1 DEF NextFrame, Leave, DevicesInv, NothingLeftOpen, Starting, InLoop, Ended, deviceVars
<1>2. CASE LastCycle
  BY <1>2 DEF LastCycle, Leave, DevicesInv, NothingLeftOpen, Starting, InLoop, Ended, deviceVars
<1>3. CASE Detect
  BY <1>3 DEF Detect, Leave, DevicesInv, NothingLeftOpen, Starting, InLoop, Ended, deviceVars
<1>4. CASE Decide
  BY <1>4 DEF Decide, Leave, DevicesInv, NothingLeftOpen, Starting, InLoop, Ended, deviceVars
<1>5. CASE SendJob
  BY <1>5 DEF SendJob, Leave, DevicesInv, NothingLeftOpen, Starting, InLoop, Ended, deviceVars
<1>6. CASE EndCycle
  BY <1>6 DEF EndCycle, Leave, DevicesInv, NothingLeftOpen, Starting, InLoop, Ended, deviceVars
<1>7. CASE Close
  BY <1>7 DEF Close, DevicesInv, NothingLeftOpen, Starting, InLoop, Ended, loopVars
<1> QED BY <1>1, <1>2, <1>3, <1>4, <1>5, <1>6, <1>7

LEMMA StepKeepsDevices == DevicesInv /\ [LiveNext]_liveVars => DevicesInv'
<1> SUFFICES ASSUME DevicesInv, [LiveNext]_liveVars PROVE DevicesInv'
  OBVIOUS
<1>1. CASE Live
  BY <1>1, ConstructorKeepsDevices, OpeningKeepsDevices, LoopKeepsDevices DEF Live
<1>2. CASE Operator
  BY <1>2 DEF Operator, DevicesInv, NothingLeftOpen, devices, deviceVars, loopVars
<1>3. CASE Edit
  BY <1>3 DEF Edit, DevicesInv, NothingLeftOpen, deviceVars, loopVars
<1>4. CASE CameraFreezes
  BY <1>4 DEF CameraFreezes, DevicesInv, NothingLeftOpen, deviceVars, loopVars
<1>5. CASE UNCHANGED liveVars
  BY <1>5 DEF liveVars, DevicesInv, NothingLeftOpen, deviceVars, loopVars
<1> QED BY <1>1, <1>2, <1>3, <1>4, <1>5 DEF LiveNext

\* However the run ends, the camera and the trace are closed, and the port of
\* every run whose camera could be opened: the finally block of run.
THEOREM DevicesAreClosed == LiveSpec => []NothingLeftOpen
<1>1. DevicesInv => NothingLeftOpen
  BY DEF DevicesInv
<1> QED BY <1>1, DevicesInitially, StepKeepsDevices, PTL DEF LiveSpec

-----------------------------------------------------------------------------
LEMMA RepeatsInitially == LiveInit => RepeatsInv
BY LiveAssumption DEF LiveInit, RepeatsInv

\* A frame that is let through is a new picture, or one repeat more.
LEMMA NextFrameCountsRepeats ==
  ASSUME RepeatsInv, NextFrame
  PROVE  RepeatsInv'
<1>1. CASE UNCHANGED frameVars
  BY <1>1 DEF RepeatsInv, frameVars
<1>2. ASSUME NEW shown \in Pictures, NEW gap \in {"none", "short", "long"},
             ~Stale(shown, gap),
             guard' = [started |-> TRUE, picture |-> shown, repeats |-> RepeatsAfter(shown)],
             acted' = IF guard.started /\ shown = guard.picture
                      THEN (IF acted > MaxRepeats + 1 THEN acted ELSE acted + 1) ELSE 1
      PROVE  RepeatsInv'
  <2>1. CASE guard.started /\ shown = guard.picture
    BY <1>2, <2>1, LiveAssumption DEF RepeatsInv, Stale, RepeatsTooOften, RepeatsAfter
  <2>2. CASE ~(guard.started /\ shown = guard.picture)
    BY <1>2, <2>2, LiveAssumption DEF RepeatsInv, RepeatsAfter
  <2> QED BY <2>1, <2>2
<1> QED BY <1>1, <1>2 DEF NextFrame

LEMMA StepCountsRepeats == RepeatsInv /\ [LiveNext]_liveVars => RepeatsInv'
<1> SUFFICES ASSUME RepeatsInv, [LiveNext]_liveVars PROVE RepeatsInv'
  OBVIOUS
<1>1. CASE NextFrame
  BY <1>1, NextFrameCountsRepeats
<1>2. CASE UNCHANGED <<guard, acted>>
  BY <1>2 DEF RepeatsInv
<1>3. CASE LoadConfig \/ LookForProfiles \/ CreateProfiles \/ ReadProfiles \/ CheckFrame \/ Ping \/ Gate
  BY <1>2, <1>3 DEF LoadConfig, LookForProfiles, CreateProfiles, ReadProfiles, CheckFrame, Ping, Gate,
                    devices, frameVars
<1>4. CASE RunPipeline \/ OpenPort \/ BuildRaised \/ OpenCamera \/ OpenTrace
  BY <1>2, <1>4 DEF RunPipeline, OpenPort, BuildRaised, OpenCamera, OpenTrace, frameVars
<1>5. CASE LastCycle \/ Detect \/ Decide \/ SendJob \/ EndCycle \/ Close
  BY <1>2, <1>5 DEF LastCycle, Detect, Decide, SendJob, EndCycle, Close, frameVars
<1>6. CASE Operator \/ Edit \/ CameraFreezes \/ UNCHANGED liveVars
  BY <1>2, <1>6 DEF Operator, Edit, CameraFreezes, liveVars, devices, frameVars
<1> QED BY <1>1, <1>3, <1>4, <1>5, <1>6 DEF LiveNext, Live

\* A picture that does not change is acted on at most MaxRepeats + 1 times in
\* a row: FrameFreshnessGuard counts from the second one.
THEOREM RepeatsAreBounded == LiveSpec => []FrozenPictureIsBounded
<1>1. RepeatsInv => FrozenPictureIsBounded
  BY LiveAssumption DEF RepeatsInv, FrozenPictureIsBounded
<1> QED BY <1>1, RepeatsInitially, StepCountsRepeats, PTL DEF LiveSpec
-----------------------------------------------------------------------------
(* The window and the file.                                                *)

\* What the window may show and save.
Showable(profiles, selected, current) ==
  /\ profiles \in Seq(AllProfiles) /\ profiles # <<>> /\ Unique(profiles)
  /\ selected \in Names(profiles) /\ current \in Names(profiles)

ProfilesInv ==
  /\ saving \in {"no", "truncate", "write"} /\ window.open \in BOOLEAN
  /\ ~window.open => saving = "no"
  /\ window.open => /\ Showable(window.profiles, window.selected, window.current)
                    /\ window = Window(window.profiles, window.selected, window.current)
  /\ file.kind = "mapping" => file.profiles \in Seq(AllProfiles)
  /\ WindowAndFileAgree

LEMMA ProfilesInitially == LiveInit => ProfilesInv
<1> SUFFICES ASSUME LiveInit PROVE ProfilesInv
  OBVIOUS
<1>1. window.open = FALSE /\ saving = "no" /\ file \in Files
  BY DEF LiveInit, ProfilesInit, NoWindow
<1> QED BY <1>1, ProfilesAssumption DEF ProfilesInv, WindowAndFileAgree

LEMMA DefaultIsProfile ==
  /\ DefaultProfile \in AllProfiles
  /\ <<DefaultProfile>> \in Seq(AllProfiles) /\ <<DefaultProfile>> # <<>>
  /\ Unique(<<DefaultProfile>>) /\ DefaultName \in Names(<<DefaultProfile>>)
<1>1. DefaultProfile \in AllProfiles /\ DefaultProfile.name = DefaultName
  BY ProfilesAssumption DEF DefaultProfile, AllProfiles, AllNames
<1> HIDE DEF DefaultProfile
<1>2. /\ <<DefaultProfile>> \in Seq(AllProfiles) /\ <<DefaultProfile>> # <<>>
      /\ Len(<<DefaultProfile>>) = 1 /\ <<DefaultProfile>>[1] = DefaultProfile
  BY <1>1
<1> QED BY <1>1, <1>2 DEF Unique, Names

\* What a file that can be loaded gives.
LEMMA LoadedIsShowable ==
  ASSUME NEW f, f.profiles \in Seq(AllProfiles), Loadable(f)
  PROVE  Showable(LoadedProfiles(f), LoadedSelected(f), LoadedSelected(f))
<1> DEFINE p == LoadedProfiles(f)
<1>1. p \in Seq(AllProfiles) /\ p # <<>> /\ Unique(p)
  BY DefaultIsProfile DEF LoadedProfiles, Loadable
<1>2. Len(p) \in Nat /\ Len(p) # 0
  BY <1>1
<1>3. p[1].name \in Names(p)
  BY <1>2 DEF Names
<1>4. LoadedSelected(f) \in Names(p)
  BY <1>3 DEF LoadedSelected
<1> QED BY <1>1, <1>4 DEF Showable

\* A profile found by its name.
LEMMA PlaceFound ==
  ASSUME NEW profiles \in Seq(AllProfiles), NEW name \in Names(profiles)
  PROVE  /\ PlaceOf(profiles, name) \in 1..Len(profiles)
         /\ profiles[PlaceOf(profiles, name)].name = name
         /\ Profile(profiles, name) \in AllProfiles
<1>1. \E i \in 1..Len(profiles) : profiles[i].name = name
  BY DEF Names
<1>2. PlaceOf(profiles, name) \in 1..Len(profiles) /\ profiles[PlaceOf(profiles, name)].name = name
  BY <1>1 DEF PlaceOf
<1> QED BY <1>2 DEF Profile

\* An operation that leaves something to show can save it.
LEMMA EditedAgrees ==
  ASSUME ProfilesInv, NEW profiles, NEW selected, NEW current, Showable(profiles, selected, current),
         Edited(profiles, selected, current)
  PROVE  ProfilesInv'
<1>1. /\ window' = Window(profiles, selected, current) /\ file' = file
      /\ saving' = IF Saveable(profiles, selected) THEN "truncate" ELSE "no"
  BY DEF Edited
<1>2. saving' = "truncate"
  BY <1>1 DEF Showable, Saveable
<1>3. window'.open /\ window'.profiles = profiles /\ window'.selected = selected /\ window'.current = current
  BY <1>1 DEF Window
<1> QED BY <1>1, <1>2, <1>3 DEF ProfilesInv, WindowAndFileAgree, Showable

\* A threshold set is that of one profile; names and order stay.
LEMMA SetThresholdAgrees == ASSUME ProfilesInv, SetThreshold PROVE ProfilesInv'
<1> DEFINE p == window.profiles
           Updated(key, value) == [k \in Keys |-> 2 * IF k = key THEN value ELSE Spins[k]]
           Renewed(key, value) == [i \in 1..Len(p) |->
                                     IF p[i].name = window.current
                                     THEN [p[i] EXCEPT !.thresholds = Updated(key, value)] ELSE p[i]]
<1>1. PICK key \in Keys, value \in SpinValues :
        window.open /\ Edited(Renewed(key, value), window.selected, window.current)
  BY DEF SetThreshold
<1>2. Showable(p, window.selected, window.current)
  BY <1>1 DEF ProfilesInv
<1>3. Updated(key, value) \in [Keys -> Int]
  <2>1. ASSUME NEW k \in Keys PROVE Spins[k] \in Int
    <3>1. Profile(p, window.current).thresholds[k] \in Int
      BY <1>2, PlaceFound DEF Showable, AllProfiles
    <3>2. Rounded(Profile(p, window.current).thresholds[k]) \in Int
      <4> DEFINE h == Profile(p, window.current).thresholds[k]
      <4>1. h \in Int
        BY <3>1
      <4> HIDE DEF h
      <4> QED BY <4>1 DEF Rounded, h
    <3> QED BY <3>2 DEF Spins
  <2>2. value \in Int
    BY ProfilesAssumption
  <2> HIDE DEF p
  <2> QED BY <2>1, <2>2
<1> DEFINE r == Renewed(key, value)
           u == Updated(key, value)
<1>4. p \in Seq(AllProfiles) /\ Len(p) \in Nat /\ p # <<>>
  BY <1>2 DEF Showable
<1>5. ASSUME NEW i \in 1..Len(p) PROVE r[i] \in AllProfiles /\ r[i].name = p[i].name
  <2>1. p[i] \in AllProfiles
    BY <1>4
  <2>2. r[i] = IF p[i].name = window.current THEN [p[i] EXCEPT !.thresholds = u] ELSE p[i]
    OBVIOUS
  <2> HIDE DEF r, u, p
  <2> QED BY <1>3, <2>1, <2>2 DEF AllProfiles, u
<1>6. r \in Seq(AllProfiles) /\ Len(r) = Len(p) /\ r # <<>>
  <2>1. r = [i \in 1..Len(p) |-> r[i]]
    OBVIOUS
  <2>2. Len(p) # 0
    BY <1>4
  <2> HIDE DEF r, p
  <2> QED BY <1>4, <1>5, <2>1, <2>2
<1>7. Unique(r) /\ window.selected \in Names(r) /\ window.current \in Names(r)
  <2>1. Unique(p) /\ window.selected \in Names(p) /\ window.current \in Names(p)
    BY <1>2 DEF Showable
  <2> HIDE DEF r, p
  <2> QED BY <1>5, <1>6, <2>1 DEF Unique, Names
<1>8. Showable(r, window.selected, window.current)
  <2> HIDE DEF r
  <2> QED BY <1>6, <1>7 DEF Showable
<1> HIDE DEF Renewed
<1> QED BY <1>1, <1>8, EditedAgrees

\* A profile with a new name goes to the end.
LEMMA NewProfileAgrees ==
  ASSUME ProfilesInv, window.open, NEW name \in NewNames, NEW limits \in [Keys -> Int],
         NewProfile(name, limits)
  PROVE  ProfilesInv'
<1> DEFINE p == window.profiles
           new == [name |-> name, thresholds |-> limits]
           r == Append(p, new)
<1>1. name \notin Names(p) /\ Edited(r, window.selected, name)
  BY DEF NewProfile
<1>2. Showable(p, window.selected, window.current)
  BY DEF ProfilesInv
<1>3. new \in AllProfiles /\ new.name = name
  BY DEF AllProfiles, AllNames
<1>4. p \in Seq(AllProfiles) /\ Len(p) \in Nat
  BY <1>2 DEF Showable
<1>5. /\ r \in Seq(AllProfiles) /\ Len(r) = Len(p) + 1 /\ r[Len(p) + 1] = new
      /\ \A i \in 1..Len(p) : r[i] = p[i]
  <2> HIDE DEF new, p
  <2> QED BY <1>3, <1>4
<1> HIDE DEF new, r, p
<1>6. r # <<>>
  <2>1. Len(r) # 0
    BY <1>4, <1>5
  <2> QED BY <2>1
<1>7. \A i \in 1..Len(r) : i \in 1..Len(p) \/ i = Len(p) + 1
  BY <1>4, <1>5
<1>8. \A i \in 1..Len(p) : p[i].name # name
  BY <1>1 DEF Names
<1>9. Unique(r)
  BY <1>2, <1>3, <1>5, <1>7, <1>8 DEF Showable, Unique
<1>10. Len(p) + 1 \in 1..Len(r) /\ 1..Len(p) \subseteq 1..Len(r)
  BY <1>4, <1>5
<1>11. window.selected \in Names(r) /\ name \in Names(r)
  BY <1>2, <1>3, <1>5, <1>10 DEF Showable, Names
<1>12. Showable(r, window.selected, name)
  BY <1>5, <1>6, <1>9, <1>11 DEF Showable
<1> QED BY <1>1, <1>12, EditedAgrees

LEMMA Removal ==
  ASSUME NEW S, NEW s \in Seq(S), NEW n \in 1..Len(s)
  PROVE  LET r == RemoveAt(s, n) IN
           /\ r \in Seq(S) /\ Len(r) = Len(s) - 1
           /\ \A i \in 1..Len(r) : r[i] = IF i < n THEN s[i] ELSE s[i + 1]
<1> DEFINE front == SubSeq(s, 1, n - 1)
           back  == SubSeq(s, n + 1, Len(s))
<1>1. Len(s) \in Nat /\ n \in Nat
  OBVIOUS
<1>2. front \in Seq(S) /\ Len(front) = n - 1 /\ \A i \in 1..n - 1 : front[i] = s[i]
  BY <1>1
<1>3. back \in Seq(S) /\ Len(back) = Len(s) - n /\ \A i \in 1..Len(s) - n : back[i] = s[n + i]
  BY <1>1
<1> HIDE DEF front, back
<1>4. /\ front \o back \in Seq(S) /\ Len(front \o back) = Len(s) - 1
      /\ \A i \in 1..Len(s) - 1 : (front \o back)[i] = IF i < n THEN s[i] ELSE s[i + 1]
  <2> DEFINE r == front \o back
             l == Len(s)
  <2>0. front \in Seq(S) /\ back \in Seq(S)
    BY <1>2, <1>3
  <2>1. r \in Seq(S) /\ Len(r) = Len(front) + Len(back)
    BY <2>0
  <2>2. \A i \in 1..Len(front) + Len(back) :
           r[i] = IF i <= Len(front) THEN front[i] ELSE back[i - Len(front)]
    BY <1>2, <1>3
  <2>3. l \in Nat /\ n \in 1..l
    BY <1>1
  <2> HIDE DEF r, l
  <2>4. Len(r) = l - 1
    BY <1>1, <1>2, <1>3, <2>1, <2>3 DEF l
  <2>5. ASSUME NEW i \in 1..l - 1 PROVE r[i] = IF i < n THEN s[i] ELSE s[i + 1]
    <3>1. i \in 1..Len(front) + Len(back)
      BY <1>1, <1>2, <1>3, <2>3, <2>5 DEF l
    <3>2. CASE i < n
      BY <1>1, <1>2, <2>2, <2>3, <3>1, <3>2
    <3>3. CASE ~(i < n)
      <4>1. i - (n - 1) \in 1..l - n /\ n + (i - (n - 1)) = i + 1 /\ ~(i <= n - 1)
        BY <1>1, <2>3, <2>5, <3>3
      <4>2. r[i] = back[i - (n - 1)]
        BY <1>2, <2>2, <3>1, <4>1
      <4>3. back[i - (n - 1)] = s[n + (i - (n - 1))]
        BY <1>3, <4>1 DEF l
      <4> QED BY <3>3, <4>1, <4>2, <4>3
    <3> QED BY <3>2, <3>3
  <2> QED BY <2>1, <2>4, <2>5 DEF r, l
<1>5. RemoveAt(s, n) = front \o back
  BY DEF RemoveAt, front, back
<1> QED BY <1>4, <1>5

\* The profile selected is another one when it is the one deleted.
LEMMA DeleteAgrees == ASSUME ProfilesInv, DeleteProfile PROVE ProfilesInv'
<1> DEFINE p == window.profiles
           n == PlaceOf(p, window.current)
           r == RemoveAt(p, n)
<1>1. window.open /\ Len(p) > 1 /\ Edited(r, SelectedAfter(r), r[1].name)
  BY DEF DeleteProfile
<1>2. Showable(p, window.selected, window.current)
  BY <1>1 DEF ProfilesInv
<1>3. p \in Seq(AllProfiles) /\ Len(p) \in Nat /\ Unique(p)
  BY <1>2 DEF Showable
<1>4. n \in 1..Len(p) /\ p[n].name = window.current
  BY <1>2, <1>3, PlaceFound DEF Showable
<1> HIDE DEF p, n
<1>5. /\ r \in Seq(AllProfiles) /\ Len(r) = Len(p) - 1
      /\ \A i \in 1..Len(r) : r[i] = IF i < n THEN p[i] ELSE p[i + 1]
  BY <1>3, <1>4, Removal
<1> HIDE DEF r
<1>6. r # <<>> /\ 1 \in 1..Len(r)
  <2>1. Len(r) # 0 /\ 1 \in 1..Len(r)
    BY <1>1, <1>3, <1>5
  <2> QED BY <2>1
<1>7. Unique(r)
  <2> SUFFICES ASSUME NEW i \in 1..Len(r), NEW j \in 1..Len(r), r[i].name = r[j].name PROVE i = j
    BY DEF Unique
  <2> DEFINE I == IF i < n THEN i ELSE i + 1
             J == IF j < n THEN j ELSE j + 1
  <2>1. I \in 1..Len(p) /\ J \in 1..Len(p) /\ (I = J => i = j)
    BY <1>3, <1>4, <1>5
  <2>2. r[i] = p[I] /\ r[j] = p[J]
    BY <1>5
  <2> HIDE DEF I, J
  <2>3. I = J
    BY <1>3, <2>1, <2>2 DEF Unique
  <2> QED BY <2>1, <2>3
<1>8. r[1].name \in Names(r)
  BY <1>6 DEF Names
<1>9. SelectedAfter(r) \in Names(r)
  <2>1. CASE window.selected = window.current
    BY <1>8, <2>1 DEF SelectedAfter
  <2>2. CASE window.selected # window.current
    <3>1. PICK m \in 1..Len(p) : p[m].name = window.selected
      BY <1>2 DEF Showable, Names
    <3>2. m # n
      BY <1>4, <2>2, <3>1
    <3>3. \E i \in 1..Len(r) : r[i] = p[m]
      <4>1. CASE m < n
        <5>1. m \in 1..Len(r) /\ r[m] = p[m]
          BY <1>3, <1>4, <1>5, <4>1
        <5> QED BY <5>1
      <4>2. CASE n < m
        <5>1. m - 1 \in 1..Len(r) /\ ~(m - 1 < n) /\ (m - 1) + 1 = m
          BY <1>3, <1>4, <1>5, <4>2
        <5>2. r[m - 1] = p[m]
          BY <1>5, <5>1
        <5> QED BY <5>1, <5>2
      <4> QED BY <1>3, <1>4, <3>2, <4>1, <4>2
    <3> QED BY <2>2, <3>1, <3>3 DEF SelectedAfter, Names
  <2> QED BY <2>1, <2>2
<1>10. Showable(r, SelectedAfter(r), r[1].name)
  BY <1>5, <1>6, <1>7, <1>8, <1>9 DEF Showable
<1> QED BY <1>1, <1>10, EditedAgrees

LEMMA OpenAgrees == ASSUME ProfilesInv, OpenWindow PROVE ProfilesInv'
<1>1. saving = "no" /\ file' = file /\ overwritten' = FALSE
  BY DEF OpenWindow, ProfilesInv
<1>2. CASE file = Missing
  <2>1. window' = Window(<<DefaultProfile>>, DefaultName, DefaultName) /\ saving' = "truncate"
    BY <1>2 DEF OpenWindow
  <2>2. /\ window'.open = TRUE /\ window'.profiles = <<DefaultProfile>>
        /\ window'.selected = DefaultName /\ window'.current = DefaultName
    BY <2>1 DEF Window
  <2>3. Showable(<<DefaultProfile>>, DefaultName, DefaultName)
    BY DefaultIsProfile DEF Showable
  <2> QED BY <1>1, <2>1, <2>2, <2>3 DEF ProfilesInv, WindowAndFileAgree, Showable
<1>3. CASE file # Missing
  <2> DEFINE p == LoadedProfiles(file)
             s == LoadedSelected(file)
  <2>1. Loadable(file) /\ window' = Window(p, s, s) /\ saving' = saving
    BY <1>3 DEF OpenWindow
  <2>2. window'.open = TRUE /\ window'.profiles = p /\ window'.selected = s /\ window'.current = s
    BY <2>1 DEF Window
  <2>3. Showable(p, s, s)
    BY <2>1, LoadedIsShowable DEF ProfilesInv, Loadable
  <2>4. WindowAndFileAgree'
    <3>1. Loadable(file)' /\ LoadedProfiles(file)' = p /\ LoadedSelected(file)' = s
      BY <1>1, <2>1 DEF Loadable, LoadedProfiles, LoadedSelected
    <3> HIDE DEF p, s
    <3> QED BY <2>2, <2>3, <3>1 DEF WindowAndFileAgree, Showable
  <2> HIDE DEF p, s
  <2> QED BY <1>1, <2>1, <2>2, <2>3, <2>4 DEF ProfilesInv, Showable
<1> QED BY <1>2, <1>3

LEMMA SaveAgrees == ASSUME ProfilesInv, SaveProfiles PROVE ProfilesInv'
<1>1. window' = window /\ overwritten' = FALSE /\ saving \in {"truncate", "write"}
  BY DEF SaveProfiles
<1>2. window.open /\ Showable(window.profiles, window.selected, window.current)
  BY <1>1 DEF ProfilesInv
<1>3. CASE saving = "truncate"
  <2>1. file' = Empty /\ saving' = "write" /\ Empty.kind # "mapping"
    BY <1>3 DEF SaveProfiles, Empty
  <2> QED BY <1>1, <1>2, <2>1 DEF ProfilesInv, WindowAndFileAgree
<1>4. CASE saving = "write"
  <2>1. file' = Saved(window.profiles, window.selected) /\ saving' = "no"
    BY <1>4 DEF SaveProfiles
  <2>2. file'.kind = "mapping" /\ file'.profiles = window.profiles /\ file'.selected = window.selected
    BY <2>1 DEF Saved
  <2>3. LoadedProfiles(file)' = window.profiles
    BY <1>2, <2>2 DEF LoadedProfiles, Showable
  <2>4. LoadedSelected(file)' = window.selected
    BY <1>2, <2>2, <2>3 DEF LoadedSelected, Showable
  <2>5. Loadable(file)'
    BY <1>2, <2>2 DEF Loadable, Showable
  <2> QED BY <1>1, <1>2, <2>1, <2>2, <2>3, <2>4, <2>5 DEF ProfilesInv, WindowAndFileAgree, Showable
<1> QED BY <1>1, <1>3, <1>4

LEMMA OperatorAgrees == ASSUME ProfilesInv, OperatorSteps PROVE ProfilesInv'
<1>1. CASE ShowProfile
  <2>1. PICK name \in Names(window.profiles) : window' = Window(window.profiles, window.selected, name)
    BY <1>1 DEF ShowProfile
  <2>2. window.open /\ UNCHANGED <<file, saving, overwritten>>
    BY <1>1 DEF ShowProfile
  <2>3. /\ window'.open = TRUE /\ window'.profiles = window.profiles /\ window'.selected = window.selected
        /\ window'.current = name
    BY <2>1 DEF Window
  <2>4. Loadable(file)' = Loadable(file) /\ LoadedProfiles(file)' = LoadedProfiles(file)
        /\ LoadedSelected(file)' = LoadedSelected(file)
    BY <2>2 DEF Loadable, LoadedProfiles, LoadedSelected
  <2> QED BY <2>1, <2>2, <2>3, <2>4 DEF ProfilesInv, WindowAndFileAgree, Showable
<1>2. CASE AddProfile
  <2>1. PICK name \in NewNames : window.open /\ NewProfile(name, [key \in Keys |-> 100])
    BY <1>2 DEF AddProfile
  <2> QED BY <2>1, NewProfileAgrees
<1>3. CASE CloneProfile
  <2>1. PICK name \in NewNames :
          window.open /\ NewProfile(name, Profile(window.profiles, window.current).thresholds)
    BY <1>3 DEF CloneProfile
  <2>2. Profile(window.profiles, window.current) \in AllProfiles
    BY <2>1, PlaceFound DEF ProfilesInv, Showable
  <2>3. Profile(window.profiles, window.current).thresholds \in [Keys -> Int]
    BY <2>2 DEF AllProfiles
  <2> QED BY <2>1, <2>3, NewProfileAgrees
<1>4. CASE SelectActive
  <2>1. window.open /\ Edited(window.profiles, window.current, window.current)
    BY <1>4 DEF SelectActive
  <2> QED BY <2>1, EditedAgrees DEF ProfilesInv, Showable
<1> QED BY <1>1, <1>2, <1>3, <1>4, OpenAgrees, SetThresholdAgrees, DeleteAgrees, SaveAgrees DEF OperatorSteps

LEMMA ProfilesStep == ProfilesInv /\ [LiveNext]_liveVars => ProfilesInv'
<1> SUFFICES ASSUME ProfilesInv, [LiveNext]_liveVars PROVE ProfilesInv'
  OBVIOUS
<1>1. CASE Operator
  BY <1>1, OperatorAgrees DEF Operator
<1>2. CASE CreateProfiles
  <2>1. window' = window /\ saving' = saving /\ overwritten' = TRUE /\ file' \in {Empty, DefaultFile}
    BY <1>2 DEF CreateProfiles
  <2>2. file'.kind = "mapping" => file'.profiles = <<DefaultProfile>>
    BY <2>1 DEF Empty, DefaultFile, Saved
  <2> QED BY <2>1, <2>2, DefaultIsProfile DEF ProfilesInv, WindowAndFileAgree
<1>3. CASE Gate
  <2>1. window'.open = FALSE /\ saving' = "no" /\ file'.kind # "mapping"
    BY <1>3 DEF Gate, ForgetProfiles, NoWindow, Missing
  <2> QED BY <2>1 DEF ProfilesInv, WindowAndFileAgree
<1>4. CASE UNCHANGED profileVars
  BY <1>4 DEF profileVars, ProfilesInv, WindowAndFileAgree, Loadable, LoadedProfiles, LoadedSelected
<1>5. CASE LoadConfig \/ LookForProfiles \/ ReadProfiles \/ CheckFrame \/ Ping
  BY <1>4, <1>5 DEF LoadConfig, LookForProfiles, ReadProfiles, CheckFrame, Ping
<1>6. CASE RunPipeline \/ OpenPort \/ BuildRaised \/ OpenCamera \/ OpenTrace
  BY <1>4, <1>6 DEF RunPipeline, OpenPort, BuildRaised, OpenCamera, OpenTrace, outside
<1>7. CASE NextFrame \/ LastCycle \/ Detect \/ Decide \/ SendJob \/ EndCycle \/ Close
  BY <1>4, <1>7 DEF NextFrame, LastCycle, Detect, Decide, SendJob, EndCycle, Close, outside
<1>8. CASE Edit \/ CameraFreezes \/ UNCHANGED liveVars
  BY <1>4, <1>8 DEF Edit, CameraFreezes, liveVars
<1> QED BY <1>1, <1>2, <1>3, <1>5, <1>6, <1>7, <1>8 DEF LiveNext, Live

\* Between two operations of the window the file gives back what the window
\* shows, whatever was read, added, cloned, deleted or selected before: no
\* operation leaves profiles that save_reject_profiles refuses.
THEOREM WindowKeepsFile == LiveSpec => []WindowAndFileAgree
<1>1. ProfilesInv => WindowAndFileAgree
  BY DEF ProfilesInv
<1> QED BY <1>1, ProfilesInitially, ProfilesStep, PTL DEF LiveSpec

-----------------------------------------------------------------------------
(* The trace.                                                              *)

\* The natural numbers are well ordered.
LEMMA LeastOf ==
  ASSUME NEW T \in SUBSET Nat, T # {}
  PROVE  \E x \in T : \A y \in T : x <= y
<1>1. \E R : IsWellFoundedOn(R, Nat) /\ \A x, y \in Nat : y < x => <<y, x>> \in R
  <2> DEFINE R == OpToRel(<, Nat)
  <2>1. IsWellFoundedOn(R, Nat)
    BY NatLessThanWellFounded
  <2>2. \A x, y \in Nat : y < x => <<y, x>> \in R
    BY DEF OpToRel
  <2> QED BY <2>1, <2>2, Zenon
<1>2. PICK R : IsWellFoundedOn(R, Nat) /\ \A x, y \in Nat : y < x => <<y, x>> \in R
  BY <1>1, Zenon
<1>3. PICK x \in T : \A y \in T : ~ (<<y, x>> \in R)
  BY <1>2, WFMin, Zenon
<1>4. ASSUME NEW y \in T PROVE x <= y
  <2>1. ~(y < x)
    BY <1>2, <1>3, Zenon
  <2> QED BY <2>1
<1> QED BY <1>4, Zenon

LEMMA LeastJob ==
  ASSUME NEW n \in Nat, NEW S \in SUBSET (1..n), S # {}
  PROVE  Min(S) \in S
<1>1. S \in SUBSET Nat
  OBVIOUS
<1>2. \E x \in S : \A y \in S : x <= y
  BY <1>1, LeastOf
<1> QED BY <1>2 DEF Min

BeforeBuilt == {"new", "constructed", "calibration", "load_calibration", "raised"}
Reloading   == {"lane", "load_lane", "calibration", "load_calibration", "decide", "raised"}

\* What a stage has behind it: the diagnostics, the pipeline and the devices.
StageInv ==
  /\ stage \in {"build", "open_camera", "open_trace"} \cup InLoop => passed
  /\ stage \in {"open_camera", "open_trace"} \cup InLoop => port /\ built
  /\ stage \in {"open_trace"} \cup InLoop => camera
  /\ stage \in InLoop => trace
  /\ built \in BOOLEAN
  /\ IF ~built THEN at \in BeforeBuilt
     ELSE IF stage = "decide" THEN at \in Reloading ELSE at = "idle"

LEMMA StageInitially == LiveInit => StageInv
<1> SUFFICES ASSUME LiveInit PROVE StageInv
  OBVIOUS
<1>1. stage = "config" /\ built = FALSE /\ at = "new"
  BY DEF LiveInit, PipelineInit
<1> QED BY <1>1 DEF StageInv, InLoop, BeforeBuilt

LEMMA RunPipelineKeepsStage == ASSUME StageInv, RunPipeline PROVE StageInv'
<1>1. UNCHANGED <<stage, passed, port, camera, trace>> /\ PipelineSteps
  BY DEF RunPipeline, startVars, deviceVars, beforeRun
<1>2. built => stage = "decide" /\ at \in Reloading /\ at' \in Reloading /\ built' = TRUE
  <2> SUFFICES ASSUME built PROVE stage = "decide" /\ at \in Reloading /\ at' \in Reloading /\ built' = TRUE
    OBVIOUS
  <2>1. at # "idle"
    BY <1>1 DEF PipelineSteps, ConstructGeometry, ConstructMtime, LookAtLane, LoadLane, LookAtCalibration,
                LoadCalibration
  <2>2. stage = "decide" /\ at \in Reloading
    BY <2>1 DEF StageInv
  <2>3. built' = TRUE
    BY <1>1 DEF PipelineSteps, ConstructGeometry, ConstructMtime, LookAtLane, LoadLane, LookAtCalibration,
                LoadCalibration, Calibrated, StageInv
  <2>4. at' \in Reloading
    BY <1>1, <2>2 DEF PipelineSteps, ConstructGeometry, ConstructMtime, LookAtLane, LoadLane, LookAtCalibration,
                      LoadCalibration, Calibrated, Reloading
  <2> QED BY <2>2, <2>3, <2>4
<1>3. ~built => stage # "decide" /\ ((built' = FALSE /\ at' \in BeforeBuilt) \/ (built' = TRUE /\ at' = "idle"))
  <2> SUFFICES ASSUME ~built
               PROVE  stage # "decide" /\ ((built' = FALSE /\ at' \in BeforeBuilt) \/ (built' = TRUE /\ at' = "idle"))
    OBVIOUS
  <2>1. stage # "decide" /\ at \in BeforeBuilt /\ built = FALSE
    BY DEF StageInv, InLoop
  <2> QED BY <1>1, <2>1 DEF PipelineSteps, ConstructGeometry, ConstructMtime, LookAtLane, LoadLane,
                            LookAtCalibration, LoadCalibration, Calibrated, BeforeBuilt
<1> QED BY <1>1, <1>2, <1>3 DEF StageInv

LEMMA StageStep == DevicesInv /\ StageInv /\ [LiveNext]_liveVars => StageInv'
<1> SUFFICES ASSUME DevicesInv, StageInv, [LiveNext]_liveVars PROVE StageInv'
  OBVIOUS
<1>1. CASE RunPipeline
  BY <1>1, RunPipelineKeepsStage
<1>2. CASE UNCHANGED <<stage, passed, port, camera, trace, at, built>>
  BY <1>2 DEF StageInv
<1>3. CASE LoadConfig \/ LookForProfiles \/ CreateProfiles \/ ReadProfiles \/ CheckFrame
  <2>1. UNCHANGED <<port, camera, trace, at, built>>
        /\ stage \in {"config", "profiles", "create", "fill", "read", "check_frame"}
        /\ stage' \in {"config", "profiles", "create", "fill", "read", "check_frame", "raised", "ping"}
    BY <1>3 DEF LoadConfig, LookForProfiles, CreateProfiles, ReadProfiles, CheckFrame, ModeChecked, devices,
                pipelineVars, deviceVars
  <2> QED BY <2>1 DEF StageInv, InLoop
<1>4. CASE Ping \/ Gate \/ BuildRaised
  <2>1. UNCHANGED <<port, camera, trace, at, built>> /\ stage \in {"ping", "gate", "build"}
        /\ stage' \in {"gate", "raised", "build", "failed"} /\ (stage' = "build" => passed')
    BY <1>4 DEF Ping, Gate, BuildRaised, devices, pipelineVars, deviceVars, beforeRun, startVars
  <2> QED BY <2>1 DEF StageInv, InLoop
<1>5. CASE OpenPort \/ OpenCamera \/ OpenTrace
  <2>1. UNCHANGED <<at, built, passed>> /\ stage \in {"build", "open_camera", "open_trace"}
    BY <1>5 DEF OpenPort, OpenCamera, OpenTrace, pipelineVars, beforeRun, startVars
  <2>2. CASE OpenPort
    BY <2>1, <2>2 DEF OpenPort, StageInv, InLoop, BeforeBuilt
  <2>3. CASE OpenCamera
    BY <2>1, <2>3 DEF OpenCamera, StageInv, InLoop
  <2>4. CASE OpenTrace
    BY <2>1, <2>4 DEF OpenTrace, Leave, StageInv, InLoop
  <2> QED BY <1>5, <2>2, <2>3, <2>4
<1>6. CASE NextFrame \/ LastCycle \/ SendJob \/ EndCycle
  <2>1. UNCHANGED <<port, camera, trace, at, built, passed>> /\ stage \in {"loop", "send"}
        /\ stage' \in {"loop", "send", "detect", "close"}
    BY <1>6 DEF NextFrame, LastCycle, SendJob, EndCycle, Leave, pipelineVars, deviceVars, beforeRun, startVars
  <2> QED BY <2>1 DEF StageInv, InLoop
<1>7. CASE Detect \/ Decide
  <2>1. UNCHANGED <<port, camera, trace, built, passed>> /\ stage \in {"detect", "decide"}
    BY <1>7 DEF Detect, Decide, deviceVars, beforeRun, startVars
  <2>2. CASE Detect
    BY <2>1, <2>2 DEF Detect, Leave, StageInv, InLoop, Reloading
  <2>3. CASE Decide
    BY <2>1, <2>3 DEF Decide, Leave, StageInv, InLoop
  <2> QED BY <1>7, <2>2, <2>3
<1>8. CASE Close
  <2>1. stage = "close" /\ UNCHANGED <<at, built>> /\ stage' \in {"raised", "done"}
    BY <1>8 DEF Close, pipelineVars, DevicesInv
  <2> QED BY <2>1 DEF StageInv, InLoop
<1>9. CASE Operator \/ Edit \/ CameraFreezes \/ UNCHANGED liveVars
  BY <1>2, <1>9 DEF Operator, Edit, EditCalibration, CameraFreezes, liveVars, devices, pipelineVars, deviceVars,
                    startVars, beforeRun
<1> QED BY <1>1, <1>3, <1>4, <1>5, <1>6, <1>7, <1>8, <1>9 DEF LiveNext, Live

\* What the process has read: a configuration, thresholds for every key, and
\* the picture under way.
ReadInv ==
  /\ stage \in {"config", "raised"} \/ config \in Payloads
  /\ thresholds \in [Keys -> Int]
  /\ stage \in {"detect", "decide", "send"} => picture \in Pictures

LEMMA ReadInitially == LiveInit => ReadInv
BY ProfilesAssumption DEF LiveInit, ReadInv

LEMMA ThresholdsTyped ==
  ASSUME ProfilesInv
  PROVE  ThresholdsOf(file) \in [Keys -> Int]
<1>1. CASE Loadable(file)
  <2> DEFINE p == LoadedProfiles(file)
             n == LoadedSelected(file)
  <2>1. p \in Seq(AllProfiles) /\ n \in Names(p)
    BY <1>1, LoadedIsShowable DEF ProfilesInv, Loadable, Showable
  <2> HIDE DEF p, n
  <2>2. Profile(p, n) \in AllProfiles
    BY <2>1, PlaceFound
  <2>3. Profile(p, n).thresholds \in [Keys -> Int]
    BY <2>2 DEF AllProfiles
  <2> QED BY <1>1, <2>3 DEF ThresholdsOf, p, n
<1>2. CASE ~Loadable(file)
  BY <1>2, ProfilesAssumption DEF ThresholdsOf
<1> QED BY <1>1, <1>2

LEMMA ReadStep == DevicesInv /\ ProfilesInv /\ ReadInv /\ [LiveNext]_liveVars => ReadInv'
<1> SUFFICES ASSUME DevicesInv, ProfilesInv, ReadInv, [LiveNext]_liveVars PROVE ReadInv'
  OBVIOUS
<1>1. CASE LoadConfig
  <2>1. UNCHANGED <<thresholds, picture>> /\ stage' \in {"config", "profiles", "raised"}
        /\ (stage' = "profiles" => config' \in Payloads) /\ (stage' = "config" \/ stage' = "raised" \/ stage' = "profiles")
    BY <1>1 DEF LoadConfig, devices, frameVars
  <2> QED BY <2>1 DEF ReadInv
<1>2. CASE ReadProfiles
  <2>1. UNCHANGED <<config, picture>> /\ stage = "read" /\ stage' \in {"raised", "check_frame"}
        /\ (thresholds' = thresholds \/ thresholds' = ThresholdsOf(file))
    BY <1>2 DEF ReadProfiles, ModeChecked, devices, frameVars
  <2> QED BY <2>1, ThresholdsTyped DEF ReadInv
<1>3. CASE LookForProfiles \/ CreateProfiles \/ CheckFrame \/ Ping \/ Gate \/ BuildRaised
  <2>1. UNCHANGED <<config, picture, thresholds>> /\ stage \notin {"config", "raised"}
        /\ stage' \notin {"config", "detect", "decide", "send"}
    BY <1>3 DEF LookForProfiles, CreateProfiles, CheckFrame, Ping, Gate, BuildRaised, ModeChecked, devices, frameVars,
                startVars, beforeRun
  <2> QED BY <2>1 DEF ReadInv
<1>4. CASE OpenPort \/ OpenCamera \/ OpenTrace \/ LastCycle \/ EndCycle
  <2>1. UNCHANGED <<config, picture, thresholds>> /\ stage \notin {"config", "raised"}
        /\ stage' \notin {"config", "detect", "decide", "send"}
    BY <1>4 DEF OpenPort, OpenCamera, OpenTrace, LastCycle, EndCycle, Leave, frameVars, startVars, beforeRun
  <2> QED BY <2>1 DEF ReadInv
<1>5. CASE NextFrame
  <2>1. UNCHANGED <<config, thresholds>> /\ stage = "loop"
        /\ (stage' = "close" \/ (stage' = "detect" /\ picture' \in Pictures))
    BY <1>5 DEF NextFrame, Leave, startVars, beforeRun
  <2> QED BY <2>1 DEF ReadInv
<1>6. CASE Detect \/ Decide \/ SendJob
  <2>1. UNCHANGED <<config, thresholds, picture>> /\ stage \in {"detect", "decide", "send"}
        /\ stage' \notin {"config", "raised"}
    BY <1>6 DEF Detect, Decide, SendJob, Leave, frameVars, startVars, beforeRun
  <2> QED BY <2>1 DEF ReadInv
<1>7. CASE Close
  <2>1. UNCHANGED <<config, thresholds, picture>> /\ stage = "close" /\ stage' \in {"raised", "done"}
    BY <1>7 DEF Close, frameVars, startVars, beforeRun, DevicesInv
  <2> QED BY <2>1 DEF ReadInv
<1>8. CASE RunPipeline \/ Operator \/ Edit \/ CameraFreezes \/ UNCHANGED liveVars
  <2>1. UNCHANGED <<stage, config, thresholds, picture>>
    BY <1>8 DEF RunPipeline, Operator, Edit, CameraFreezes, liveVars, devices, frameVars, startVars, beforeRun
  <2> QED BY <2>1 DEF ReadInv
<1> QED BY <1>1, <1>2, <1>3, <1>4, <1>5, <1>6, <1>7, <1>8 DEF LiveNext, Live

\* A detector gives a sequence, whose length is that of the large regions.
LEMMA DetectionsCounted ==
  ASSUME NEW provider \in Providers, NEW shown \in Pictures
  PROVE  Len(Detections(provider, shown)) \in Nat
<1> DEFINE large == {i \in 1..Len(shown.regions) : shown.regions[i].area >= MinArea}
           count == Cardinality(large)
<1>1. Len(shown.regions) \in Nat /\ provider \in DetectionProviders
  BY LiveAssumption
<1>2. count \in Nat
  <2>1. IsFiniteSet(1..Len(shown.regions))
    BY <1>1, FS_Interval
  <2>2. large \in SUBSET (1..Len(shown.regions))
    OBVIOUS
  <2> HIDE DEF large
  <2>3. IsFiniteSet(large)
    BY <2>1, <2>2, FS_Subset
  <2> QED BY <2>3, FS_CardinalityType
<1>3. CASE provider = "model_stub"
  <2>1. Detections(provider, shown) = StubDetections(shown)
    BY <1>3 DEF Detections
  <2>2. Len(StubDetections(shown)) = 1
    BY DEF StubDetections
  <2> QED BY <2>1, <2>2
<1>4. CASE provider \in {"opencv_basic", "opencv_calibrated"}
  <2> DEFINE basic      == [n \in 1..count |-> BasicDetection(shown.regions[Nth(large, n)])]
             calibrated == [n \in 1..count |-> CalibratedDetection(shown.regions[Nth(large, n)])]
  <2>1. Detections(provider, shown) = basic \/ Detections(provider, shown) = calibrated
    BY <1>4 DEF Detections
  <2>2. Len(basic) = count /\ Len(calibrated) = count
    <3> HIDE DEF count
    <3> QED BY <1>2
  <2> HIDE DEF basic, calibrated, count
  <2> QED BY <1>2, <2>1, <2>2
<1> QED BY <1>1, <1>3, <1>4 DEF DetectionProviders

Seen == Len(Frame.detections)

\* What was sent and not yet traced is of the frame under way.
TracedInv ==
  /\ untraced \in Nat
  /\ stage \notin {"send", "close", "raised"} => untraced = 0
  /\ stage = "close" /\ result = "done" => untraced = 0
  /\ stage = "send" => /\ jobs \in SUBSET (1..Seen)
                       /\ untraced + Cardinality(jobs) <= Seen
  /\ untraced > 0 => untraced <= Seen

LEMMA SeenCounted == ReadInv /\ stage \in {"detect", "decide", "send"} => Seen \in Nat
<1> SUFFICES ASSUME ReadInv, stage \in {"detect", "decide", "send"} PROVE Seen \in Nat
  OBVIOUS
<1>1. config \in Payloads /\ picture \in Pictures
  BY DEF ReadInv
<1>2. config.provider \in Providers
  BY <1>1 DEF Payloads
<1>3. Len(Detections(config.provider, picture)) \in Nat
  BY <1>1, <1>2, DetectionsCounted
<1> QED BY <1>3 DEF Seen, Frame

\* The detections of a frame are those of its picture, whatever the files.
LEMMA SeenStays == UNCHANGED <<config, picture, metrics>> => UNCHANGED Seen
BY DEF Seen, Frame

LEMMA JobsCounted ==
  ASSUME NEW n \in Nat, NEW S \in SUBSET (1..n)
  PROVE  Cardinality(S) \in Nat /\ Cardinality(S) <= n /\ IsFiniteSet(S)
<1>1. IsFiniteSet(1..n) /\ Cardinality(1..n) = n
  BY FS_Interval
<1>2. IsFiniteSet(S) /\ Cardinality(S) <= Cardinality(1..n)
  BY <1>1, FS_Subset
<1>3. Cardinality(S) \in Nat
  BY <1>2, FS_CardinalityType
<1> QED BY <1>1, <1>2, <1>3

LEMMA SendKeepsTrace == ASSUME ReadInv, TracedInv, SendJob PROVE TracedInv'
<1>1. stage = "send" /\ jobs # {} /\ UNCHANGED <<config, picture, metrics>>
  BY DEF SendJob, frameVars, startVars, beforeRun
<1>2. Seen \in Nat /\ Seen' = Seen
  BY <1>1, SeenCounted, SeenStays
<1>3. /\ jobs \in SUBSET (1..Seen) /\ untraced \in Nat /\ untraced + Cardinality(jobs) <= Seen
  BY <1>1 DEF TracedInv
<1> DEFINE c == Cardinality(jobs)
<1>4. IsFiniteSet(jobs) /\ c \in Nat /\ c # 0
  BY <1>1, <1>2, <1>3, JobsCounted, FS_EmptySet
<1>5. CASE jobs' = jobs \ {Min(jobs)} /\ untraced' = untraced + 1 /\ stage' = stage
  <2>1. Min(jobs) \in jobs
    BY <1>1, <1>2, <1>3, LeastJob
  <2>2. Cardinality(jobs') = c - 1
    BY <1>4, <1>5, <2>1, FS_RemoveElement
  <2>3. jobs' \in SUBSET (1..Seen')
    BY <1>2, <1>3, <1>5
  <2> HIDE DEF c
  <2>4. untraced' + Cardinality(jobs') <= Seen' /\ untraced' \in Nat /\ untraced' <= Seen'
    <3>1. untraced + c <= Seen
      BY <1>3 DEF c
    <3> QED BY <1>2, <1>3, <1>4, <1>5, <2>2, <3>1
  <2> QED BY <1>1, <1>5, <2>3, <2>4 DEF TracedInv
<1>6. CASE untraced' \in {untraced, untraced + 1} /\ stage' = "close" /\ result' = "raised"
  <2> HIDE DEF c
  <2>1. untraced' \in Nat /\ untraced' <= Seen'
    <3>1. untraced + c <= Seen
      BY <1>3 DEF c
    <3> QED BY <1>2, <1>3, <1>4, <1>6, <3>1
  <2> QED BY <1>6, <2>1 DEF TracedInv
<1> QED BY <1>5, <1>6 DEF SendJob, Leave

LEMMA TracedStep == DevicesInv /\ ReadInv /\ TracedInv /\ [LiveNext]_liveVars => TracedInv'
<1> SUFFICES ASSUME DevicesInv, ReadInv, TracedInv, [LiveNext]_liveVars PROVE TracedInv'
  OBVIOUS
<1>1. CASE SendJob
  BY <1>1, SendKeepsTrace
<1>2. CASE Decide
  <2>1. stage = "decide" /\ UNCHANGED <<untraced, config, picture, metrics>>
    BY <1>2 DEF Decide, frameVars, startVars, beforeRun
  <2>2. untraced = 0 /\ Seen \in Nat /\ Seen' = Seen
    BY <2>1, SeenCounted, SeenStays DEF TracedInv
  <2>3. CASE stage' = "close"
    BY <2>1, <2>2, <2>3 DEF TracedInv
  <2>4. CASE jobs' = {i \in 1..Seen : HasCommand(Frame.detections[i], Frame, Threshold)} /\ stage' = "send"
    <3>1. jobs' \in SUBSET (1..Seen')
      BY <2>2, <2>4
    <3>2. Cardinality(jobs') \in Nat /\ Cardinality(jobs') <= Seen'
      BY <2>2, <3>1, JobsCounted
    <3>3. untraced' + Cardinality(jobs') <= Seen'
      BY <2>1, <2>2, <3>2
    <3> QED BY <2>1, <2>2, <2>4, <3>1, <3>3 DEF TracedInv
  <2> QED BY <1>2, <2>3, <2>4 DEF Decide, Leave, Seen
<1>3. CASE EndCycle
  <2>1. stage = "send" /\ jobs = {} /\ UNCHANGED <<config, picture, metrics>>
    BY <1>3 DEF EndCycle, frameVars, startVars, beforeRun
  <2>2. Seen \in Nat /\ Seen' = Seen /\ untraced \in Nat /\ (untraced > 0 => untraced <= Seen)
    BY <2>1, SeenCounted, SeenStays DEF TracedInv
  <2>3. CASE untraced' = 0 /\ stage' = "loop"
    BY <2>3 DEF TracedInv
  <2>4. CASE untraced' \in 0..untraced /\ stage' = "close" /\ result' = "raised"
    BY <2>2, <2>4 DEF TracedInv
  <2> QED BY <1>3, <2>3, <2>4 DEF EndCycle, TracedAll, Leave
<1>4. CASE Close
  <2>1. stage = "close" /\ stage' = result /\ result \in {"raised", "done"}
        /\ UNCHANGED <<untraced, config, picture, metrics>>
    BY <1>4 DEF Close, frameVars, startVars, wireVars, beforeRun, DevicesInv
  <2> QED BY <2>1, SeenStays DEF TracedInv
<1>5. CASE LoadConfig \/ LookForProfiles \/ CreateProfiles \/ ReadProfiles \/ CheckFrame \/ Ping \/ Gate
  <2>1. untraced' = untraced /\ stage \notin {"send", "close", "raised"} /\ stage' \notin {"send", "close"}
    BY <1>5 DEF LoadConfig, LookForProfiles, CreateProfiles, ReadProfiles, CheckFrame, Ping, Gate, ModeChecked,
                devices, wireVars
  <2> QED BY <2>1 DEF TracedInv
<1>6. CASE OpenPort \/ BuildRaised \/ OpenCamera \/ OpenTrace \/ NextFrame \/ LastCycle \/ Detect
  <2>1. untraced' = untraced /\ stage \notin {"send", "close", "raised"} /\ stage' # "send"
    BY <1>6 DEF OpenPort, BuildRaised, OpenCamera, OpenTrace, NextFrame, LastCycle, Detect, Leave, wireVars
  <2> QED BY <2>1 DEF TracedInv
<1>7. CASE RunPipeline \/ Operator \/ Edit \/ CameraFreezes \/ UNCHANGED liveVars
  <2>1. UNCHANGED <<stage, result, jobs, untraced, config, picture, metrics>>
    BY <1>7 DEF RunPipeline, Operator, Edit, CameraFreezes, liveVars, devices, frameVars, startVars, beforeRun,
                wireVars, loopVars
  <2>2. UNCHANGED Seen
    BY <2>1, SeenStays
  <2> QED BY <2>1, <2>2 DEF TracedInv
<1> QED BY <1>1, <1>2, <1>3, <1>4, <1>5, <1>6, <1>7 DEF LiveNext, Live

LEMMA TracedInitially == LiveInit => TracedInv
BY DEF LiveInit, TracedInv

\* A run that ends without an exception has traced every job it sent, and one
\* that ends with one misses jobs of its last frame only: the entries of a
\* frame are written after all its commands have been sent.
THEOREM TraceKeepsUp == LiveSpec => []TraceAgreesWithWire
<1>1. DevicesInv /\ StageInv /\ ReadInv /\ RepeatsInv /\ TracedInv => TraceAgreesWithWire
  <2> SUFFICES ASSUME DevicesInv, StageInv, ReadInv, RepeatsInv, TracedInv PROVE TraceAgreesWithWire
    OBVIOUS
  <2>1. stage \in {"config", "profiles", "create", "fill", "read", "check_frame", "ping", "gate", "build",
                   "open_camera", "open_trace", "loop", "detect", "decide", "send", "close"} \cup Ended
    BY DEF DevicesInv, Starting, InLoop
  <2>2. stage \in {"loop", "detect", "decide", "send"} => camera /\ port /\ trace /\ passed
    BY DEF StageInv, InLoop
  <2>3. at \notin {"new", "constructed", "calibration", "load_calibration", "idle", "raised"} => stage = "decide"
    BY DEF StageInv, BeforeBuilt
  <2>4. DOMAIN thresholds = Keys
    BY DEF ReadInv
  <2>5. guard.repeats <= MaxRepeats
    BY LiveAssumption DEF RepeatsInv
  <2>6. LiveTypeOK
    BY <2>1, <2>2, <2>3, <2>4, <2>5 DEF LiveTypeOK
  <2> QED BY <2>6 DEF TracedInv, TraceAgreesWithWire, Seen
<1> QED BY <1>1, DevicesInitially, StepKeepsDevices, StageInitially, StageStep, ProfilesInitially, ProfilesStep,
           ReadInitially, ReadStep, RepeatsInitially, StepCountsRepeats, TracedInitially, TracedStep, PTL
        DEF LiveSpec

-----------------------------------------------------------------------------
(* Dark pictures.                                                          *)

LEMMA Levels ==
  ASSUME NEW level \in 0..255, NEW t \in 1..2
  PROVE  (level * (100 * t)) \div 100 = level * t
<1>1. level * (100 * t) = 100 * (level * t) /\ level * t \in Nat
  OBVIOUS
<1> DEFINE x == level * t
<1>2. (100 * x) \div 100 = x
  <2> HIDE DEF x
  <2> QED BY <1>1 DEF x
<1> QED BY <1>1, <1>2

LEMMA LumaBound ==
  ASSUME NEW a \in Nat, NEW b \in Nat, NEW c \in Nat, NEW d \in Nat, NEW share \in 0..100,
         c <= 2 * a, d <= 2 * b
  PROVE  /\ Luma(a, b, share) \in Nat /\ Luma(c, d, share) \in Nat
         /\ Luma(c, d, share) <= 2 * Luma(a, b, share)
<1> DEFINE rest == 100 - share
<1>1. rest \in Nat /\ share \in Nat
  OBVIOUS
<1> HIDE DEF rest
<1>2. a * share \in Nat /\ b * rest \in Nat /\ c * share \in Nat /\ d * rest \in Nat
  BY <1>1
<1>3. c * share <= 2 * (a * share)
  <2>1. (2 * a - c) \in Nat
    OBVIOUS
  <2>2. (2 * a - c) * share \in Nat
    BY <1>1, <2>1
  <2>3. (2 * a - c) * share = 2 * (a * share) - c * share
    BY <1>1
  <2> QED BY <1>2, <2>2, <2>3
<1>4. d * rest <= 2 * (b * rest)
  <2>1. (2 * b - d) \in Nat
    OBVIOUS
  <2>2. (2 * b - d) * rest \in Nat
    BY <1>1, <2>1
  <2>3. (2 * b - d) * rest = 2 * (b * rest) - d * rest
    BY <1>1
  <2> QED BY <1>2, <2>2, <2>3
<1> DEFINE w == a * share
           x == b * rest
           y == c * share
           z == d * rest
<1>5. Luma(a, b, share) = w + x /\ Luma(c, d, share) = y + z
  BY DEF Luma, rest
<1>6. w \in Nat /\ x \in Nat /\ y \in Nat /\ z \in Nat /\ y <= 2 * w /\ z <= 2 * x
  BY <1>2, <1>3, <1>4
<1> HIDE DEF w, x, y, z
<1> QED BY <1>5, <1>6

\* The gain a dark picture needs, or what is left of its light, is a fault.
LEMMA DarkIsFault ==
  ASSUME Normalises, NEW shown \in Pictures, Dark(shown)
  PROVE  CaptureFault(NormalMetrics(shown))
<1> DEFINE L == LumaOf(shown)
           T == TargetLuma
           m == NormalMetrics(shown)
<1>1. /\ shown.peak \in 0..255 /\ shown.base \in 0..255 /\ shown.share \in 0..100 /\ T \in 1..255
  BY LiveAssumption, DetectionAssumption
<1>2. L \in Nat /\ 5 * L < 200 * T
  <2>1. shown.peak \in Nat /\ shown.base \in Nat
    BY <1>1
  <2>2. Luma(shown.peak, shown.base, shown.share) \in Nat
    <3> DEFINE a == shown.peak
               b == shown.base
               share == shown.share
    <3>1. a \in Nat /\ b \in Nat /\ a <= 2 * a /\ b <= 2 * b /\ share \in 0..100
      BY <1>1, <2>1
    <3> HIDE DEF a, b, share
    <3>2. Luma(a, b, share) \in Nat
      BY <3>1, LumaBound
    <3> QED BY <3>2 DEF a, b, share
  <2>3. L \in Nat
    BY <2>2 DEF LumaOf
  <2> QED BY <2>3 DEF Dark
<1>3. m.gain = Gain(L)
  BY DEF NormalMetrics
<1>4. CASE 2 * Gain(L).num > 5 * Gain(L).den
  BY <1>3, <1>4 DEF CaptureFault
<1>5. CASE ~(2 * Gain(L).num > 5 * Gain(L).den)
  <2> HIDE DEF L, m
  <2>1. L < 100 /\ T \in 1..2 /\ Gain(L) = [num |-> 100 * T, den |-> 100]
    <3>0. Least(L, 100) \in Nat /\ Least(L, 100) >= 100 /\ T \in Nat
      BY <1>1, <1>2 DEF Least
    <3>1. CASE 100 * T > 4 * Least(L, 100)
      <4>0. ~(4 * (100 * T) < Least(L, 100))
        BY <3>0, <3>1
      <4>1. Gain(L) = [num |-> 4, den |-> 1]
        BY <3>1, <4>0 DEF Gain
      <4> QED BY <1>5, <4>1
    <3>2. CASE ~(100 * T > 4 * Least(L, 100))
      <4>1. ~(4 * (100 * T) < Least(L, 100))
        BY <1>1, <1>2 DEF Least
      <4>2. Gain(L) = [num |-> 100 * T, den |-> Least(L, 100)]
        BY <3>2, <4>1 DEF Gain
      <4>3. ~(2 * (100 * T) > 5 * Least(L, 100))
        BY <1>5, <4>2
      <4>4. L < 100
        BY <1>1, <1>2, <4>3 DEF Least
      <4>5. Least(L, 100) = 100
        BY <1>2, <4>4 DEF Least
      <4> QED BY <1>1, <4>2, <4>3, <4>4, <4>5
    <3> QED BY <3>1, <3>2
  <2> DEFINE After(level) == (level * Gain(L).num) \div Gain(L).den
             p == Clipped(After(shown.peak))
             b == Clipped(After(shown.base))
  <2>2. After(shown.peak) = shown.peak * T /\ After(shown.base) = shown.base * T
    <3>1. Gain(L).num = 100 * T /\ Gain(L).den = 100
      BY <2>1
    <3> QED BY <1>1, <2>1, <3>1, Levels
  <2>3. shown.peak * T \in Nat /\ shown.peak * T <= 2 * shown.peak
        /\ shown.base * T \in Nat /\ shown.base * T <= 2 * shown.base
    BY <1>1, <2>1
  <2>4. p \in Nat /\ p <= 2 * shown.peak /\ b \in Nat /\ b <= 2 * shown.base
    <3> HIDE DEF After
    <3> QED BY <1>1, <2>2, <2>3 DEF Clipped
  <2>5. m.luma = Luma(p, b, shown.share)
    BY DEF NormalMetrics, m, L
  <2> HIDE DEF p, b
  <2>6. Luma(p, b, shown.share) \in Nat /\ Luma(p, b, shown.share) <= 2 * L
    <3>1. shown.peak \in Nat /\ shown.base \in Nat
      BY <1>1
    <3>2. /\ Luma(p, b, shown.share) \in Nat
          /\ Luma(p, b, shown.share) <= 2 * Luma(shown.peak, shown.base, shown.share)
      BY <1>1, <2>4, <3>1, LumaBound
    <3> QED BY <3>2 DEF LumaOf, L
  <2>7. m.luma < 8000
    BY <1>2, <2>1, <2>5, <2>6
  <2> QED BY <2>7 DEF CaptureFault, m
<1> QED BY <1>4, <1>5

\* The metrics are those of the picture when they are used, and a picture
\* that may still change has no jobs.
DarkInv ==
  /\ stage \notin {"send", "close"} \cup Ended => jobs = {}
  /\ stage = "decide" => metrics = Metrics(config.provider, picture)
  /\ DarkFramesSendNothing

LEMMA DarkInitially == LiveInit => DarkInv
BY DEF LiveInit, DarkInv, Ended, DarkFramesSendNothing

LEMMA DecideKeepsDark == ASSUME ReadInv, DarkInv, Decide PROVE DarkInv'
<1>1. stage = "decide" /\ UNCHANGED <<config, picture, metrics>> /\ stage' \in {"close", "send"}
  BY DEF Decide, Leave, frameVars, startVars, beforeRun
<1>2. jobs = {} /\ metrics = Metrics(config.provider, picture) /\ picture \in Pictures
  BY <1>1 DEF DarkInv, ReadInv, Ended
<1>3. CASE jobs' = jobs
  BY <1>1, <1>2, <1>3 DEF DarkInv, DarkFramesSendNothing
<1>4. CASE jobs' = {i \in 1..Len(Frame.detections) : HasCommand(Frame.detections[i], Frame, Threshold)}
  <2>1. Normalises /\ config.provider # "model_stub" /\ Dark(picture) => jobs' = {}
    <3> SUFFICES ASSUME Normalises, config.provider # "model_stub", Dark(picture) PROVE jobs' = {}
      OBVIOUS
    <3>1. CaptureFault(metrics)
      BY <1>2, DarkIsFault DEF Metrics
    <3>2. ContextFault(Frame)
      BY <3>1 DEF ContextFault, Frame
    <3>3. \A d : ~HasCommand(d, Frame, Threshold)
      BY <3>2 DEF HasCommand, Decision
    <3> QED BY <1>4, <3>3
  <2> QED BY <1>1, <2>1 DEF DarkInv, DarkFramesSendNothing
<1> QED BY <1>3, <1>4 DEF Decide

LEMMA DarkStep == DevicesInv /\ ReadInv /\ DarkInv /\ [LiveNext]_liveVars => DarkInv'
<1> SUFFICES ASSUME DevicesInv, ReadInv, DarkInv, [LiveNext]_liveVars PROVE DarkInv'
  OBVIOUS
<1>1. CASE Decide
  BY <1>1, DecideKeepsDark
<1>2. CASE LoadConfig \/ LookForProfiles \/ CreateProfiles \/ ReadProfiles \/ CheckFrame \/ Ping \/ Gate
  <2>1. jobs' = jobs /\ stage \notin {"send", "close"} \cup Ended /\ stage' # "decide"
    BY <1>2 DEF LoadConfig, LookForProfiles, CreateProfiles, ReadProfiles, CheckFrame, Ping, Gate, ModeChecked,
                devices, wireVars, Ended
  <2> QED BY <2>1 DEF DarkInv, DarkFramesSendNothing
<1>3. CASE OpenPort \/ BuildRaised \/ OpenCamera \/ OpenTrace \/ NextFrame \/ LastCycle
  <2>1. jobs' = jobs /\ stage \notin {"send", "close"} \cup Ended /\ stage' # "decide"
    BY <1>3 DEF OpenPort, BuildRaised, OpenCamera, OpenTrace, NextFrame, LastCycle, Leave, wireVars, Ended
  <2> QED BY <2>1 DEF DarkInv, DarkFramesSendNothing
<1>4. CASE Detect
  <2>1. jobs' = jobs /\ stage = "detect" /\ UNCHANGED <<config, picture>>
        /\ (stage' = "close" \/ (stage' = "decide" /\ metrics' = Metrics(config.provider, picture)))
    BY <1>4 DEF Detect, MetricsOf, Leave, wireVars, beforeRun, startVars
  <2> QED BY <2>1 DEF DarkInv, DarkFramesSendNothing, Ended
<1>5. CASE SendJob \/ EndCycle
  <2>1. jobs' \subseteq jobs /\ UNCHANGED <<config, picture>> /\ stage = "send" /\ stage' \in {"send", "loop", "close"}
        /\ (stage' = "loop" => jobs' = {})
    BY <1>5 DEF SendJob, EndCycle, Leave, beforeRun, startVars, frameVars
  <2> QED BY <2>1 DEF DarkInv, DarkFramesSendNothing, Ended
<1>6. CASE Close
  <2>1. UNCHANGED <<jobs, config, picture>> /\ stage' \in {"raised", "done"}
    BY <1>6 DEF Close, DevicesInv, beforeRun, startVars, frameVars, wireVars
  <2> QED BY <2>1 DEF DarkInv, DarkFramesSendNothing, Ended
<1>7. CASE RunPipeline \/ Operator \/ Edit \/ CameraFreezes \/ UNCHANGED liveVars
  <2>1. UNCHANGED <<stage, jobs, config, picture, metrics>>
    BY <1>7 DEF RunPipeline, Operator, Edit, CameraFreezes, liveVars, devices, frameVars, startVars, beforeRun,
                wireVars
  <2> QED BY <2>1 DEF DarkInv, DarkFramesSendNothing
<1> QED BY <1>1, <1>2, <1>3, <1>4, <1>5, <1>6, <1>7 DEF LiveNext, Live

\* With an OpenCV provider no job is sent for a picture too dark to be
\* normalised: its gain, or its light after a capped one, is a capture fault,
\* and the metrics read in a cycle are those of its own frame.
THEOREM DarkNeverSends == LiveSpec => []DarkFramesSendNothing
<1>1. DarkInv => DarkFramesSendNothing
  BY DEF DarkInv
<1> QED BY <1>1, DevicesInitially, StepKeepsDevices, ProfilesInitially, ProfilesStep, ReadInitially, ReadStep,
           DarkInitially, DarkStep, PTL DEF LiveSpec

-----------------------------------------------------------------------------
(* The parser of the configuration.                                        *)

\* The last elements of a sequence of n that have a property: there is a
\* first of them.
LEMMA GreatestOf ==
  ASSUME NEW n \in Nat, NEW S \in SUBSET (1..n), S # {}
  PROVE  \E x \in S : \A y \in S : y <= x
<1> DEFINE T == {n - x : x \in S}
<1>1. T \in SUBSET Nat /\ T # {}
  <2>1. \A x \in S : n - x \in Nat
    OBVIOUS
  <2>2. PICK x \in S : TRUE
    OBVIOUS
  <2> QED BY <2>1, <2>2
<1>2. PICK t \in T : \A u \in T : t <= u
  <2> HIDE DEF T
  <2> QED BY <1>1, LeastOf
<1>3. PICK x \in S : t = n - x
  OBVIOUS
<1>4. ASSUME NEW y \in S PROVE y <= x
  <2>1. n - y \in T
    OBVIOUS
  <2>2. n - x <= n - y
    BY <1>2, <1>3, <2>1
  <2> QED BY <2>2
<1> QED BY <1>4

\* The blocks a further line may still be put into.
OpenNow ==
  {i \in 1..Len(document) :
     Opens(i) /\ \A k \in i + 1..Len(document) : document[i].indent < document[k].indent}

\* The stack holds the root and these, the outermost first.
StackInv ==
  /\ stack \in Seq([indent : Int, line : Nat]) /\ Len(stack) >= 1
  /\ stack[1].indent = -1 /\ stack[1].line = Root
  /\ \A n \in 2..Len(stack) :
       stack[n].line \in OpenNow /\ stack[n].indent = document[stack[n].line].indent
  /\ \A m, n \in 1..Len(stack) :
       m < n => stack[m].indent < stack[n].indent /\ stack[m].line < stack[n].line
  /\ \A i \in OpenNow : \E n \in 2..Len(stack) : stack[n].line = i

ParserInv ==
  /\ parents \in Seq(Nat)
  /\ loading \in {"reading", "parsed"} =>
       /\ document \in Seq(Lines) /\ Len(parents) = Len(document)
       /\ StackInv
       /\ \A j \in 1..Len(parents) : WellPlaced(j) /\ parents[j] = BlockOf(j)
  /\ loading = "refused" /\ document # <<>> =>
       \A p \in Nat : p = Len(parents) + 1 => ~WellPlaced(p)

LEMMA ParserInitially == LiveInit => ParserInv
<1> SUFFICES ASSUME LiveInit PROVE ParserInv
  OBVIOUS
<1>1. /\ document = <<>> /\ parents = <<>> /\ loading = "reading"
      /\ stack = <<[indent |-> -1, line |-> Root]>>
  BY DEF LiveInit, ConfigInit
<1>2. <<>> \in Seq(Lines) /\ <<>> \in Seq(Nat) /\ Len(<<>>) = 0
  OBVIOUS
<1> DEFINE e == [indent |-> -1, line |-> Root]
<1>3. e \in [indent : Int, line : Nat] /\ e.indent = -1 /\ e.line = Root
  BY DEF Root
<1>4. stack \in Seq([indent : Int, line : Nat]) /\ Len(stack) = 1 /\ stack[1] = e
  <2>1. stack = <<e>>
    BY <1>1
  <2> HIDE DEF e
  <2> QED BY <1>3, <2>1
<1> HIDE DEF e
<1>5. OpenNow = {}
  BY <1>1, <1>2 DEF OpenNow
<1>6. StackInv
  BY <1>3, <1>4, <1>5 DEF StackInv
<1> QED BY <1>1, <1>2, <1>6 DEF ParserInv

\* The innermost block is the last of them.
LEMMA InnermostIs ==
  ASSUME NEW n \in Nat, NEW S \in SUBSET (1..n)
  PROVE  /\ S = {} => Innermost(S) = Root
         /\ S # {} => Innermost(S) \in S /\ \A k \in S : k <= Innermost(S)
         /\ \A i \in S : (\A k \in S : k <= i) => Innermost(S) = i
<1>1. CASE S # {}
  <2>1. \E i \in S : \A k \in S : k <= i
    BY <1>1, GreatestOf
  <2>2. Innermost(S) \in S /\ \A k \in S : k <= Innermost(S)
    BY <1>1, <2>1 DEF Innermost
  <2>3. ASSUME NEW i \in S, \A k \in S : k <= i PROVE Innermost(S) = i
    <3>1. PICK m \in S : m = Innermost(S) /\ i <= m
      BY <2>2
    <3>2. m <= i /\ m \in Int /\ i \in Int
      BY <2>3
    <3> QED BY <3>1, <3>2
  <2> QED BY <1>1, <2>2, <2>3
<1> QED BY <1>1 DEF Innermost

LEMMA BlockFound ==
  ASSUME NEW j \in Nat
  PROVE  BlockOf(j) = Root \/ BlockOf(j) \in 1..j - 1
<1>1. Enclosing(j) \in SUBSET (1..j) /\ Enclosing(j) \subseteq 1..j - 1
  BY DEF Enclosing
<1>2. Innermost(Enclosing(j)) = Root \/ Innermost(Enclosing(j)) \in Enclosing(j)
  BY <1>1, InnermostIs
<1> QED BY <1>1, <1>2 DEF BlockOf

\* A line read leaves the places of those before it.
LEMMA PlacesStay ==
  ASSUME NEW n \in Nat, document \in Seq(Lines), Len(document) = n, NEW line \in Lines,
         document' = Append(document, line), NEW j \in 1..n
  PROVE  BlockOf(j)' = BlockOf(j) /\ (WellPlaced(j)' <=> WellPlaced(j))
<1>1. \A i \in 1..n : document'[i] = document[i]
  OBVIOUS
<1>2. ASSUME NEW i \in 1..j, NEW k \in 1..j PROVE Encloses(i, k)' <=> Encloses(i, k)
  <2>1. i \in 1..n /\ k \in 1..n /\ \A l \in i + 1..k : l \in 1..n
    OBVIOUS
  <2> QED BY <1>1, <2>1 DEF Encloses, Opens
<1>3. ASSUME NEW k \in 1..j PROVE Enclosing(k)' = Enclosing(k)
  BY <1>2 DEF Enclosing
<1>4. ASSUME NEW k \in 1..j PROVE BlockOf(k)' = BlockOf(k)
  BY <1>3 DEF BlockOf
<1>5. BlockOf(j) = Root \/ BlockOf(j) \in 1..n
  BY BlockFound
<1>6. Kind(BlockOf(j))' = Kind(BlockOf(j))
  BY <1>1, <1>4, <1>5 DEF Kind
<1>7. \A i \in 1..j - 1 : BlockOf(i)' = BlockOf(i) /\ document'[i] = document[i]
  BY <1>1, <1>4
<1>8. BlockOf(j)' = BlockOf(j) /\ Enclosing(j)' = Enclosing(j) /\ document'[j] = document[j]
  BY <1>1, <1>3, <1>4
<1>9. WellPlaced(j)' <=> WellPlaced(j)
  BY <1>6, <1>7, <1>8 DEF WellPlaced
<1> QED BY <1>8, <1>9

LEMMA LinesOpen ==
  ASSUME StackInv
  PROVE  /\ Len(stack) \in Nat
         /\ \A m \in 1..Len(stack) : stack[m].indent \in Int /\ stack[m].line \in Nat
<1> DEFINE Open == [indent : Int, line : Nat]
<1>1. stack \in Seq(Open)
  BY DEF StackInv
<1>2. \A e \in Open : e.indent \in Int /\ e.line \in Nat
  OBVIOUS
<1> HIDE DEF Open
<1>3. Len(stack) \in Nat /\ \A m \in 1..Len(stack) : stack[m] \in Open
  BY <1>1
<1> QED BY <1>2, <1>3

LEMMA IndentTyped == ASSUME NEW line \in Lines PROVE line.indent \in Nat
BY ConfigAssumption DEF Lines

\* The pops of a line leave the blocks that are indented less.
LEMMA PopsFound ==
  ASSUME StackInv, NEW line \in Lines
  PROVE  \E n \in 1..Len(stack) :
           /\ StillOpen(line) = SubSeq(stack, 1, n)
           /\ n = 1 \/ stack[n].indent < line.indent
           /\ \A m \in n + 1..Len(stack) : line.indent <= stack[m].indent
<1> DEFINE N == Len(stack)
           T == {n \in 1..N : \A m \in n + 1..N : line.indent <= stack[m].indent}
           P(n) == /\ n = 1 \/ stack[n].indent < line.indent
                   /\ \A m \in n + 1..N : line.indent <= stack[m].indent
<1>1. N \in Nat /\ N >= 1 /\ line.indent \in Nat /\ \A m \in 1..N : stack[m].indent \in Int
  BY LinesOpen, IndentTyped DEF StackInv
<1> HIDE DEF N
<1>2. N \in T /\ T \in SUBSET Nat
  BY <1>1
<1>3. PICK x \in T : \A y \in T : x <= y
  <2>1. T # {}
    BY <1>2
  <2> HIDE DEF T
  <2> QED BY <1>2, <2>1, LeastOf
<1>4. x \in 1..N /\ P(x)
  <2>1. CASE x = 1
    BY <1>1, <2>1
  <2>2. CASE x # 1
    <3>1. x - 1 \in 1..N /\ x - 1 \notin T
      BY <1>1, <1>3, <2>2
    <3>2. PICK m \in x..N : ~(line.indent <= stack[m].indent)
      BY <1>1, <3>1
    <3>3. m = x
      BY <1>1, <1>3, <3>2
    <3>4. stack[x].indent < line.indent
      BY <1>1, <1>3, <3>2, <3>3
    <3> QED BY <1>3, <3>4
  <2> QED BY <2>1, <2>2
<1>5. \E n \in 1..N : P(n)
  BY <1>4
<1> DEFINE c == CHOOSE n \in 1..N : P(n)
<1>6. c \in 1..N /\ P(c)
  <2> HIDE DEF P
  <2> QED BY <1>5
<1>7. StillOpen(line) = SubSeq(stack, 1, c)
  BY DEF StillOpen, N
<1> HIDE DEF c
<1> QED BY <1>6, <1>7 DEF N

\* What an indented line leaves open is the blocks it is put into.
LEMMA OpenAround ==
  ASSUME document \in Seq(Lines), StackInv, NEW line \in Lines, NEW K \in 1..Len(stack),
         K = 1 \/ stack[K].indent < line.indent,
         \A m \in K + 1..Len(stack) : line.indent <= stack[m].indent
  PROVE  {i \in OpenNow : document[i].indent < line.indent} = {stack[n].line : n \in 2..K}
<1> DEFINE N == Len(stack)
<1>1. /\ N \in Nat /\ K \in 1..N /\ line.indent \in Int
      /\ \A m \in 1..N : stack[m].indent \in Int
  BY LinesOpen, IndentTyped
<1>2. ASSUME NEW i \in OpenNow, document[i].indent < line.indent
      PROVE  \E n \in 2..K : i = stack[n].line
  <2>1. PICK n \in 2..N : stack[n].line = i
    BY DEF StackInv
  <2>2. stack[n].indent < line.indent
    BY <1>2, <2>1 DEF StackInv
  <2>3. n \in 1..K
    BY <1>1, <2>1, <2>2
  <2> QED BY <2>1, <2>3
<1>3. ASSUME NEW n \in 2..K
      PROVE  stack[n].line \in OpenNow /\ document[stack[n].line].indent < line.indent
  <2>1. n \in 2..N /\ n \in 1..N /\ K # 1
    BY <1>1
  <2>2. stack[n].line \in OpenNow /\ stack[n].indent = document[stack[n].line].indent
    BY <2>1 DEF StackInv
  <2>3. n = K \/ stack[n].indent < stack[K].indent
    BY <1>1, <2>1 DEF StackInv
  <2> QED BY <1>1, <2>1, <2>2, <2>3
<1> QED BY <1>2, <1>3

\* They are as many as the stack holds beside the root, ...
LEMMA OpenCounted ==
  ASSUME StackInv, NEW K \in 1..Len(stack)
  PROVE  Cardinality({stack[n].line : n \in 2..K}) = K - 1
<1> DEFINE S == {stack[n].line : n \in 2..K}
           f == [n \in 1..K - 1 |-> stack[n + 1].line]
<1>1. Len(stack) \in Nat /\ K \in Nat /\ K - 1 \in Nat /\ \A n \in 1..Len(stack) : stack[n].line \in Int
  BY LinesOpen
<1>2. f \in [1..K - 1 -> S]
  <2>1. \A n \in 1..K - 1 : n + 1 \in 2..K
    BY <1>1
  <2> QED BY <2>1
<1>3. ASSUME NEW m \in 1..K - 1, NEW n \in 1..K - 1, f[m] = f[n] PROVE m = n
  <2>1. m + 1 \in 1..Len(stack) /\ n + 1 \in 1..Len(stack) /\ m \in Int /\ n \in Int
    BY <1>1
  <2>2. stack[m + 1].line = stack[n + 1].line
    BY <1>3
  <2>3. /\ m + 1 < n + 1 => stack[m + 1].line < stack[n + 1].line
        /\ n + 1 < m + 1 => stack[n + 1].line < stack[m + 1].line
    BY <2>1 DEF StackInv
  <2>4. stack[m + 1].line \in Int
    BY <1>1, <2>1
  <2> QED BY <2>1, <2>2, <2>3, <2>4
<1>4. ASSUME NEW s \in S PROVE \E n \in 1..K - 1 : f[n] = s
  <2>1. PICK n \in 2..K : s = stack[n].line
    OBVIOUS
  <2>2. n - 1 \in 1..K - 1 /\ (n - 1) + 1 = n
    BY <1>1
  <2> QED BY <2>1, <2>2
<1> HIDE DEF f, S
<1>5. ExistsBijection(1..K - 1, S)
  BY <1>2, <1>3, <1>4 DEF ExistsBijection, Bijection, Injection, Surjection, IsInjective
<1>6. Cardinality(S) = K - 1
  BY <1>1, <1>5, FS_CountingElements
<1> QED BY <1>6 DEF S

\* ... and the last of them is the top of the stack.
LEMMA TopIsInnermost ==
  ASSUME document \in Seq(Lines), StackInv, NEW K \in 1..Len(stack)
  PROVE  /\ Innermost({stack[n].line : n \in 2..K}) = stack[K].line
         /\ stack[K].line = Root \/ stack[K].line \in OpenNow
<1> DEFINE S == {stack[n].line : n \in 2..K}
           M == Len(document)
<1>1. /\ Len(stack) \in Nat /\ K \in 1..Len(stack) /\ M \in Nat
      /\ \A m \in 1..Len(stack) : stack[m].line \in Nat
  BY LinesOpen
<1>2. S \in SUBSET (1..M)
  <2>1. OpenNow \subseteq 1..M
    BY DEF OpenNow
  <2>2. \A n \in 2..K : stack[n].line \in OpenNow
    BY <1>1 DEF StackInv
  <2> QED BY <2>1, <2>2
<1>3. CASE K = 1
  <2>1. S = {} /\ stack[K].line = Root
    BY <1>3 DEF StackInv
  <2> QED BY <1>1, <1>2, <2>1, InnermostIs
<1>4. CASE K # 1
  <2>1. K \in 2..Len(stack) /\ K \in 2..K
    BY <1>1, <1>4
  <2>2. stack[K].line \in S /\ stack[K].line \in OpenNow
    BY <2>1 DEF StackInv
  <2>3. ASSUME NEW n \in 2..K PROVE stack[n].line <= stack[K].line
    <3>1. n \in 1..Len(stack) /\ (n < K \/ n = K)
      BY <1>1
    <3>2. n < K => stack[n].line < stack[K].line
      BY <1>1, <3>1 DEF StackInv
    <3> QED BY <1>1, <3>1, <3>2
  <2>4. \A k \in S : k <= stack[K].line
    BY <2>3
  <2> HIDE DEF S
  <2>5. Innermost(S) = stack[K].line
    BY <1>1, <1>2, <2>2, <2>4, InnermostIs
  <2> QED BY <2>2, <2>5 DEF S
<1> QED BY <1>3, <1>4

\* A line read is put into the blocks that are open and indented less.
LEMMA EnclosingNew ==
  ASSUME NEW n \in Nat, document \in Seq(Lines), Len(document) = n, NEW line \in Lines,
         document' = Append(document, line), NEW p \in Nat, p = n + 1
  PROVE  /\ Enclosing(p)' = {i \in OpenNow : document[i].indent < line.indent}
         /\ OpenNow' = {i \in OpenNow : document[i].indent < line.indent}
                          \cup (IF line.form \in {"map", "list"} THEN {p} ELSE {})
<1>1. /\ \A i \in 1..n : document'[i] = document[i]
      /\ document'[p] = line /\ Len(document') = p
  OBVIOUS
<1> DEFINE Around == {i \in OpenNow : document[i].indent < line.indent}
<1>2. ASSUME NEW i \in 1..n
      PROVE  i \in Around <=> Opens(i)' /\ \A k \in i + 1..p : document'[i].indent < document'[k].indent
  <2>1. i + 1..p = (i + 1..n) \cup {p} /\ \A k \in i + 1..n : k \in 1..n
    OBVIOUS
  <2>2. i \in OpenNow <=> Opens(i) /\ \A k \in i + 1..n : document[i].indent < document[k].indent
    BY DEF OpenNow
  <2>3. Opens(i)' <=> Opens(i)
    BY <1>1 DEF Opens
  <2> QED BY <1>1, <2>1, <2>2, <2>3
<1>3. Enclosing(p)' = Around
  <2>1. p - 1 = n /\ Around \subseteq 1..n /\ \A i \in 1..n : i < p
    BY DEF OpenNow
  <2>2. \A i \in 1..n : Encloses(i, p)' <=> i \in Around
    BY <1>2, <2>1 DEF Encloses
  <2>3. Enclosing(p)' = {i \in 1..p - 1 : Encloses(i, p)'}
    BY DEF Enclosing
  <2> HIDE DEF Around
  <2> QED BY <2>1, <2>2, <2>3
<1>4. OpenNow' = Around \cup (IF line.form \in {"map", "list"} THEN {p} ELSE {})
  <2>1. 1..p = (1..n) \cup {p} /\ p + 1..p = {} /\ p \notin 1..n /\ Around \subseteq 1..n
    BY DEF OpenNow
  <2>2. Opens(p)' <=> line.form \in {"map", "list"}
    BY <1>1 DEF Opens
  <2>3. OpenNow' = {i \in 1..p : Opens(i)' /\ \A k \in i + 1..p : document'[i].indent < document'[k].indent}
    BY <1>1 DEF OpenNow
  <2> DEFINE In(i) == Opens(i)' /\ \A k \in i + 1..p : document'[i].indent < document'[k].indent
  <2>4. In(p) <=> line.form \in {"map", "list"}
    BY <2>1, <2>2
  <2>5. \A i \in 1..n : In(i) <=> i \in Around
    BY <1>2
  <2>6. OpenNow' = {i \in 1..p : In(i)}
    BY <2>3
  <2> HIDE DEF Around, In
  <2> QED BY <2>1, <2>4, <2>5, <2>6
<1> QED BY <1>3, <1>4

\* The top of what is left, as the checks of a line see it.
LEMMA LeftOpen ==
  ASSUME StackInv, NEW line \in Lines
  PROVE  \E K \in 1..Len(stack) :
           /\ StillOpen(line) = SubSeq(stack, 1, K)
           /\ K = 1 \/ stack[K].indent < line.indent
           /\ \A m \in K + 1..Len(stack) : line.indent <= stack[m].indent
           /\ Len(StillOpen(line)) = K /\ Last(StillOpen(line)) = stack[K]
           /\ \A m \in 1..K : StillOpen(line)[m] = stack[m]
<1> DEFINE Open == [indent : Int, line : Nat]
<1>1. stack \in Seq(Open)
  BY DEF StackInv
<1> HIDE DEF Open
<1>2. PICK K \in 1..Len(stack) :
        /\ StillOpen(line) = SubSeq(stack, 1, K)
        /\ K = 1 \/ stack[K].indent < line.indent
        /\ \A m \in K + 1..Len(stack) : line.indent <= stack[m].indent
  BY PopsFound
<1> DEFINE s == SubSeq(stack, 1, K)
<1>3. Len(s) = K /\ \A m \in 1..K : s[m] = stack[m]
  BY <1>1
<1>4. K \in 1..K
  BY <1>1
<1>5. Last(s) = stack[K]
  BY <1>3, <1>4 DEF Last
<1> HIDE DEF s
<1>6. StillOpen(line) = s
  BY <1>2 DEF s
<1> QED BY <1>2, <1>3, <1>5, <1>6

\* A line is refused exactly when its indentation leaves it no place.
LEMMA RefusedIsMisplaced ==
  ASSUME NEW n \in Nat, document \in Seq(Lines), Len(document) = n, StackInv,
         Len(parents) = n, \A j \in 1..n : parents[j] = BlockOf(j),
         NEW line \in Lines, document' = Append(document, line), NEW p \in Nat, p = n + 1
  PROVE  /\ BlockOf(p)' = Last(StillOpen(line)).line
         /\ Refused(line, StillOpen(line)) <=> ~WellPlaced(p)'
<1>1. PICK K \in 1..Len(stack) :
        /\ K = 1 \/ stack[K].indent < line.indent
        /\ \A m \in K + 1..Len(stack) : line.indent <= stack[m].indent
        /\ Len(StillOpen(line)) = K /\ Last(StillOpen(line)) = stack[K]
  BY LeftOpen
<1> DEFINE S == {stack[m].line : m \in 2..K}
<1>0. PICK b : b = stack[K].line
  OBVIOUS
<1>2. Enclosing(p)' = S
  <2>1. Enclosing(p)' = {i \in OpenNow : document[i].indent < line.indent}
    BY EnclosingNew
  <2>2. {i \in OpenNow : document[i].indent < line.indent} = S
    BY <1>1, OpenAround
  <2> QED BY <2>1, <2>2
<1>3. Cardinality(S) = K - 1 /\ K \in Nat
  BY OpenCounted, LinesOpen
<1>4. Innermost(S) = b /\ (b = Root \/ b \in OpenNow)
  BY <1>0, TopIsInnermost
<1> HIDE DEF S
<1>5. BlockOf(p)' = b
  BY <1>2, <1>4 DEF BlockOf
<1>6. \A i \in 1..n : BlockOf(i)' = BlockOf(i) /\ document'[i] = document[i]
  <2>1. \A i \in 1..n : document'[i] = document[i]
    OBVIOUS
  <2> QED BY <2>1, PlacesStay
<1>7. document'[p] = line
  OBVIOUS
<1>8. Kind(b)' = Kind(b) /\ Kind(b) \in {"map", "list"}
  <2>1. b \in OpenNow => b \in 1..n /\ document[b].form \in {"map", "list"}
    BY DEF OpenNow, Opens
  <2> QED BY <1>4, <1>6, <2>1 DEF Kind
<1>9. Kind(BlockOf(p))' = Kind(b)
  BY <1>5, <1>8 DEF Kind
<1>10. line.form \in KeyForms \cup {"item", "other"}
  BY DEF Lines
<1>11. Cardinality(Enclosing(p)') < MaxDepth <=> ~(K > MaxDepth)
  BY <1>2, <1>3, ConfigAssumption
<1>12. (\E i \in 1..n : parents[i] = b /\ document[i].key = line.key)
         <=> ~\A i \in 1..p - 1 : BlockOf(i)' = BlockOf(p)' => document'[i].key # document'[p].key
  <2>1. 1..p - 1 = 1..n
    OBVIOUS
  <2> QED BY <1>5, <1>6, <1>7, <2>1
<1>13. WellPlaced(p)' <=>
         /\ line.indent % 2 = 0
         /\ ~(K > MaxDepth)
         /\ line.form # "other"
         /\ line.form = "item" <=> Kind(b) = "list"
         /\ line.form \in KeyForms => ~\E i \in 1..n : parents[i] = b /\ document[i].key = line.key
  BY <1>7, <1>9, <1>11, <1>12 DEF WellPlaced
<1>14. Refused(line, StillOpen(line)) <=>
         \/ line.indent % 2 # 0
         \/ K > MaxDepth
         \/ line.form = "other"
         \/ line.form = "item" /\ Kind(b) # "list"
         \/ /\ line.form \in KeyForms
            /\ \/ Kind(b) # "map"
               \/ \E i \in 1..n : parents[i] = b /\ document[i].key = line.key
  BY <1>0, <1>1 DEF Refused
<1>15. Refused(line, StillOpen(line)) <=> ~WellPlaced(p)'
  BY <1>8, <1>10, <1>13, <1>14 DEF KeyForms
<1> QED BY <1>0, <1>1, <1>5, <1>15

\* What a line that is not refused leaves on the stack.
LEMMA StackStep ==
  ASSUME NEW n \in Nat, document \in Seq(Lines), Len(document) = n, StackInv,
         NEW line \in Lines, document' = Append(document, line), NEW p \in Nat, p = n + 1,
         stack' = IF line.form \in {"map", "list"}
                  THEN Append(StillOpen(line), [indent |-> line.indent, line |-> p])
                  ELSE StillOpen(line)
  PROVE  StackInv'
<1>1. PICK K \in 1..Len(stack) :
        /\ StillOpen(line) = SubSeq(stack, 1, K)
        /\ K = 1 \/ stack[K].indent < line.indent
        /\ \A m \in K + 1..Len(stack) : line.indent <= stack[m].indent
        /\ Len(StillOpen(line)) = K
        /\ \A m \in 1..K : StillOpen(line)[m] = stack[m]
  BY LeftOpen
<1> DEFINE Open == [indent : Int, line : Nat]
           e == [indent |-> line.indent, line |-> p]
           S == {stack[m].line : m \in 2..K}
           opens == line.form \in {"map", "list"}
<1>2. /\ K \in Nat /\ K >= 1 /\ line.indent \in Nat /\ Len(stack) \in Nat /\ K <= Len(stack)
      /\ \A m \in 1..Len(stack) : stack[m].indent \in Int /\ stack[m].line \in Nat
  BY LinesOpen, IndentTyped
<1>3. StillOpen(line) \in Seq(Open)
  <2>1. stack \in Seq(Open)
    BY DEF StackInv
  <2> HIDE DEF Open
  <2> QED BY <1>1, <2>1
<1>4. e \in Open /\ e.indent = line.indent /\ e.line = p
  BY <1>2
<1>5. /\ stack' \in Seq(Open) /\ \A m \in 1..K : stack'[m] = stack[m]
      /\ opens => Len(stack') = K + 1 /\ stack'[K + 1] = e
      /\ ~opens => Len(stack') = K
  <2> HIDE DEF Open
  <2>1. CASE opens
    <3>1. stack' = Append(StillOpen(line), e)
      BY <2>1
    <3> DEFINE o == StillOpen(line)
    <3>2. o \in Seq(Open) /\ Len(o) = K /\ e \in Open
      BY <1>1, <1>3, <1>4
    <3> HIDE DEF e, o
    <3>3. /\ Append(o, e) \in Seq(Open) /\ Len(Append(o, e)) = K + 1 /\ Append(o, e)[K + 1] = e
          /\ \A m \in 1..K : Append(o, e)[m] = o[m]
      BY <1>2, <3>2
    <3>4. \A m \in 1..K : o[m] = stack[m]
      BY <1>1 DEF o
    <3> QED BY <2>1, <3>1, <3>3, <3>4 DEF o
  <2>2. CASE ~opens
    BY <1>1, <1>3, <2>2
  <2> QED BY <2>1, <2>2
<1>6. OpenNow' = S \cup (IF opens THEN {p} ELSE {})
  BY <1>1, EnclosingNew, OpenAround
<1>7. document'[p] = line /\ \A i \in 1..n : document'[i] = document[i]
  OBVIOUS
<1>8. ASSUME NEW m \in 2..K
      PROVE  /\ stack[m].line \in S /\ stack[m].line \in 1..n
             /\ stack[m].indent = document'[stack[m].line].indent
  <2>1. m \in 2..Len(stack)
    BY <1>2
  <2>2. stack[m].line \in OpenNow /\ stack[m].indent = document[stack[m].line].indent
    BY <2>1 DEF StackInv
  <2> QED BY <1>7, <2>2 DEF OpenNow
<1>9. ASSUME NEW m \in 1..K PROVE stack[m].indent < line.indent /\ stack[m].line < p
  <2>1. CASE m = 1
    BY <1>2, <2>1 DEF StackInv, Root
  <2>2. CASE m # 1
    <3>1. m \in 2..K /\ K # 1
      BY <1>2, <2>2
    <3>2. m \in 1..Len(stack) /\ K \in 1..Len(stack) /\ (m < K \/ m = K)
      BY <1>2
    <3>3. m < K => stack[m].indent < stack[K].indent
      BY <3>2 DEF StackInv
    <3>4. stack[m].indent < line.indent
      BY <1>1, <1>2, <3>1, <3>2, <3>3
    <3>5. stack[m].line < p
      BY <1>8, <3>1
    <3> QED BY <3>4, <3>5
  <2> QED BY <2>1, <2>2
<1> HIDE DEF Open, e, S, opens
<1>10. stack'[1] = stack[1] /\ 1 \in 1..K /\ Len(stack') \in {K, K + 1}
  BY <1>2, <1>5
<1>11. stack' \in Seq(Open) /\ Len(stack') >= 1 /\ stack'[1].indent = -1 /\ stack'[1].line = Root
  <2>1. stack[1].indent = -1 /\ stack[1].line = Root
    BY DEF StackInv
  <2> QED BY <1>2, <1>5, <1>10, <2>1
<1>12. ASSUME NEW m \in 2..Len(stack')
       PROVE  stack'[m].line \in OpenNow' /\ stack'[m].indent = document'[stack'[m].line].indent
  <2>1. m \in 2..K \/ (opens /\ m = K + 1)
    BY <1>2, <1>5
  <2>2. CASE m \in 2..K
    <3>1. stack'[m] = stack[m]
      BY <1>2, <1>5, <2>2
    <3> QED BY <1>6, <1>8, <2>2, <3>1
  <2>3. CASE opens /\ m = K + 1
    BY <1>4, <1>5, <1>6, <1>7, <2>3
  <2> QED BY <2>1, <2>2, <2>3
<1>13. ASSUME NEW l \in 1..Len(stack'), NEW m \in 1..Len(stack'), l < m
       PROVE  stack'[l].indent < stack'[m].indent /\ stack'[l].line < stack'[m].line
  <2>1. l \in 1..K /\ (m \in 1..K \/ (opens /\ m = K + 1))
    BY <1>2, <1>5, <1>13
  <2>2. CASE m \in 1..K
    <3>1. stack'[l] = stack[l] /\ stack'[m] = stack[m] /\ l \in 1..Len(stack) /\ m \in 1..Len(stack)
      BY <1>2, <1>5, <2>1, <2>2
    <3> QED BY <1>13, <3>1 DEF StackInv
  <2>3. CASE opens /\ m = K + 1
    BY <1>4, <1>5, <1>9, <2>1, <2>3
  <2> QED BY <2>1, <2>2, <2>3
<1>14. ASSUME NEW i \in OpenNow' PROVE \E m \in 2..Len(stack') : stack'[m].line = i
  <2>1. i \in S \/ (opens /\ i = p)
    BY <1>6
  <2>2. CASE i \in S
    <3>1. PICK m \in 2..K : i = stack[m].line
      BY <2>2 DEF S
    <3>2. m \in 2..Len(stack') /\ stack'[m] = stack[m]
      BY <1>2, <1>5
    <3> QED BY <3>1, <3>2
  <2>3. CASE opens /\ i = p
    <3>1. K + 1 \in 2..Len(stack')
      BY <1>2, <1>5, <2>3
    <3> QED BY <1>4, <1>5, <2>3, <3>1
  <2> QED BY <2>1, <2>2, <2>3
<1> QED BY <1>11, <1>12, <1>13, <1>14 DEF StackInv, Open

LEMMA ReadLineKeepsParser == ASSUME ParserInv, ReadLine PROVE ParserInv'
<1>1. PICK line \in Lines :
        /\ document' = Append(document, line)
        /\ IF Refused(line, StillOpen(line)) THEN loading' = "refused" /\ UNCHANGED <<stack, parents>>
           ELSE /\ parents' = Append(parents, Last(StillOpen(line)).line)
                /\ stack' = IF line.form \in {"map", "list"}
                            THEN Append(StillOpen(line), [indent |-> line.indent, line |-> Position])
                            ELSE StillOpen(line)
                /\ UNCHANGED loading
  BY DEF ReadLine
<1> DEFINE n == Len(document)
<1>2. /\ loading = "reading" /\ parents \in Seq(Nat) /\ document \in Seq(Lines)
      /\ Len(parents) = n /\ StackInv /\ n \in Nat /\ n + 1 \in Nat /\ Position = n + 1
      /\ \A j \in 1..n : WellPlaced(j) /\ parents[j] = BlockOf(j)
  <2>1. loading = "reading"
    BY DEF ReadLine
  <2>2. /\ parents \in Seq(Nat) /\ document \in Seq(Lines) /\ Len(parents) = n /\ StackInv
        /\ \A j \in 1..n : WellPlaced(j) /\ parents[j] = BlockOf(j)
    BY <2>1 DEF ParserInv
  <2>3. n \in Nat /\ n + 1 \in Nat
    BY <2>2
  <2> QED BY <2>1, <2>2, <2>3 DEF Position
<1>3. document' \in Seq(Lines) /\ Len(document') = n + 1 /\ document' # <<>>
  <2>1. document' = Append(document, line) /\ document \in Seq(Lines)
    BY <1>1, <1>2
  <2>2. Append(document, line) \in Seq(Lines) /\ Len(Append(document, line)) = Len(document) + 1
        /\ Append(document, line) # <<>>
    BY <2>1
  <2> QED BY <2>1, <2>2
<1> HIDE DEF n
<1>4. PICK p \in Nat : p = n + 1
  BY <1>2
<1>5. /\ BlockOf(p)' = Last(StillOpen(line)).line
      /\ Refused(line, StillOpen(line)) <=> ~WellPlaced(p)'
  BY <1>1, <1>2, <1>4, RefusedIsMisplaced DEF n
<1>6. CASE Refused(line, StillOpen(line))
  <2>1. loading' = "refused" /\ parents' = parents
    BY <1>1, <1>6
  <2>2. \A q \in Nat : q = Len(parents) + 1 => q = p
    BY <1>2, <1>4
  <2>3. \A q \in Nat : q = Len(parents') + 1 => ~WellPlaced(q)'
    BY <1>5, <1>6, <2>1, <2>2
  <2> QED BY <1>2, <2>1, <2>3 DEF ParserInv
<1>7. CASE ~Refused(line, StillOpen(line))
  <2>1. /\ loading' = "reading" /\ parents' = Append(parents, Last(StillOpen(line)).line)
        /\ stack' = IF line.form \in {"map", "list"}
                    THEN Append(StillOpen(line), [indent |-> line.indent, line |-> p])
                    ELSE StillOpen(line)
    BY <1>1, <1>2, <1>4, <1>7
  <2>2. StackInv'
    BY <1>1, <1>2, <1>4, <2>1, StackStep DEF n
  <2>3. Last(StillOpen(line)).line \in Nat
    BY <1>2, LeftOpen, LinesOpen
  <2>4. parents' \in Seq(Nat) /\ Len(parents') = p /\ parents'[p] = Last(StillOpen(line)).line
        /\ \A j \in 1..n : parents'[j] = parents[j]
    BY <1>2, <1>4, <2>1, <2>3
  <2>5. ASSUME NEW j \in 1..p PROVE WellPlaced(j)' /\ parents'[j] = BlockOf(j)'
    <3>1. CASE j = p
      <4>1. WellPlaced(p)' /\ parents'[p] = BlockOf(p)'
        BY <1>5, <1>7, <2>4
      <4> QED BY <3>1, <4>1
    <3>2. CASE j # p
      <4>1. j \in 1..n
        BY <1>2, <1>4, <3>2
      <4>2. BlockOf(j)' = BlockOf(j) /\ (WellPlaced(j)' <=> WellPlaced(j))
        BY <1>1, <1>2, <4>1, PlacesStay DEF n
      <4> QED BY <1>2, <2>4, <4>1, <4>2
    <3> QED BY <3>1, <3>2
  <2> QED BY <1>3, <1>4, <2>1, <2>2, <2>4, <2>5 DEF ParserInv
<1> QED BY <1>6, <1>7

\* The places of the lines depend on the text alone.
LEMMA SameTextSameParser ==
  ASSUME UNCHANGED <<document, stack>>
  PROVE  /\ StackInv' <=> StackInv
         /\ \A j \in Nat : BlockOf(j)' = BlockOf(j) /\ (WellPlaced(j)' <=> WellPlaced(j))
<1>1. OpenNow' = OpenNow
  BY DEF OpenNow, Opens
<1>2. StackInv' <=> StackInv
  BY <1>1 DEF StackInv
<1>3. \A i, j \in Nat : Encloses(i, j)' <=> Encloses(i, j)
  BY DEF Encloses, Opens
<1>4. ASSUME NEW j \in Nat PROVE Enclosing(j)' = Enclosing(j)
  <2>1. \A i \in 1..j - 1 : i \in Nat
    OBVIOUS
  <2> QED BY <1>3, <2>1 DEF Enclosing
<1>5. ASSUME NEW j \in Nat PROVE BlockOf(j)' = BlockOf(j)
  BY <1>4 DEF BlockOf
<1>6. ASSUME NEW j \in Nat PROVE WellPlaced(j)' <=> WellPlaced(j)
  <2>1. Kind(BlockOf(j))' = Kind(BlockOf(j))
    BY <1>5 DEF Kind
  <2>2. \A i \in 1..j - 1 : BlockOf(i)' = BlockOf(i)
    BY <1>5
  <2> QED BY <1>4, <1>5, <2>1, <2>2 DEF WellPlaced
<1> QED BY <1>2, <1>5, <1>6

LEMMA ParserStep == ParserInv /\ [LiveNext]_liveVars => ParserInv'
<1> SUFFICES ASSUME ParserInv, [LiveNext]_liveVars PROVE ParserInv'
  OBVIOUS
<1>1. CASE ReadLine
  BY <1>1, ReadLineKeepsParser
<1>2. CASE EndOfDocument
  BY <1>2, SameTextSameParser DEF EndOfDocument, ParserInv
<1>3. CASE \E payload \in Payloads : LoadFields(payload)
  <2>1. document' = <<>> /\ parents' = <<>> /\ loading' \in {"loaded", "refused"}
    BY <1>3 DEF LoadFields
  <2>2. <<>> \in Seq(Nat)
    OBVIOUS
  <2> QED BY <2>1, <2>2 DEF ParserInv
<1>4. CASE UNCHANGED configVars
  BY <1>4, SameTextSameParser DEF configVars, ParserInv
<1>5. CASE LoadConfig
  BY <1>1, <1>2, <1>3, <1>4, <1>5 DEF LoadConfig
<1>6. CASE LookForProfiles \/ CreateProfiles \/ ReadProfiles \/ CheckFrame \/ Ping
  BY <1>4, <1>6 DEF LookForProfiles, CreateProfiles, ReadProfiles, CheckFrame, Ping
<1>7. CASE Gate \/ RunPipeline \/ OpenPort \/ BuildRaised \/ OpenCamera \/ OpenTrace
  BY <1>4, <1>7 DEF Gate, RunPipeline, OpenPort, BuildRaised, OpenCamera, OpenTrace, beforeRun
<1>8. CASE NextFrame \/ LastCycle \/ Detect \/ Decide \/ SendJob \/ EndCycle \/ Close
  BY <1>4, <1>8 DEF NextFrame, LastCycle, Detect, Decide, SendJob, EndCycle, Close, beforeRun
<1>9. CASE Operator \/ Edit \/ CameraFreezes \/ UNCHANGED liveVars
  BY <1>4, <1>9 DEF Operator, Edit, CameraFreezes, beforeRun, liveVars
<1> QED BY <1>5, <1>6, <1>7, <1>8, <1>9 DEF LiveNext, Live

\* ParserNests: the stack machine of _parse_simple_yaml puts every line where
\* its indentation says, and refuses a document at the first line for which
\* that is nowhere, whatever the lines, their number and the greatest depth.
THEOREM ParserPlacesLines == LiveSpec => []ParserNests
<1>1. ParserInv => ParserNests
  <2> SUFFICES ASSUME ParserInv PROVE ParserNests
    OBVIOUS
  <2>1. Position \in Nat /\ Position = Len(parents) + 1
    BY DEF ParserInv, Position
  <2> QED BY <2>1 DEF ParserInv, ParserNests
<1> QED BY <1>1, ParserInitially, ParserStep, PTL DEF LiveSpec
=============================================================================
