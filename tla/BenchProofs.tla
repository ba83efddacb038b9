----------------------------- MODULE BenchProofs -----------------------------
(***************************************************************************)
(* Proofs about module Ingest on its own, for every capacity, drop policy  *)
(* and sequence of payloads, and about module BenchCycle for every queue,  *)
(* encoder, scene, driver, number of frames and number of edits.           *)
(***************************************************************************)
EXTENDS BenchCycle, FiniteSetTheorems, TLAPS

-----------------------------------------------------------------------------
(* The ingest boundary.                                                    *)

IngestInv == queue \in Seq(Payloads) /\ lastFrameId \in Int /\ QueueInOrder

LEMMA PayloadsHaveIds ==
  ASSUME NEW q \in Seq(Payloads), NEW i \in 1..Len(q)
  PROVE  q[i] \in Payloads /\ q[i].id \in Int
<1>1. q[i] \in Payloads
  OBVIOUS
<1> QED BY <1>1 DEF Payloads

\* A frame accepted is later than every frame that waits, so that it may be
\* put behind any part of the queue.
LEMMA AppendKeepsOrder ==
  ASSUME NEW q \in Seq(Payloads), NEW p \in Payloads, lastFrameId \in Int, Accepts(p),
         \A i \in 1..Len(q) : Valid(q[i]) /\ q[i].id <= lastFrameId,
         \A i, j \in 1..Len(q) : i < j => q[i].id < q[j].id
  PROVE  LET r == Append(q, p) IN
           /\ r \in Seq(Payloads) /\ Len(r) = Len(q) + 1
           /\ \A i \in 1..Len(r) : Valid(r[i]) /\ r[i].id <= p.id
           /\ \A i, j \in 1..Len(r) : i < j => r[i].id < r[j].id
<1> DEFINE r == Append(q, p)
<1>1. /\ r \in Seq(Payloads) /\ Len(r) = Len(q) + 1 /\ Len(q) \in Nat
      /\ r[Len(q) + 1] = p /\ \A i \in 1..Len(q) : r[i] = q[i]
  OBVIOUS
<1>2. \A i \in 1..Len(q) : q[i] \in Payloads /\ q[i].id \in Int
  BY PayloadsHaveIds
<1>3. Valid(p) /\ p.id > lastFrameId /\ p.id \in Int
  BY DEF Accepts, Payloads
<1>4. ASSUME NEW i \in 1..Len(r) PROVE Valid(r[i]) /\ r[i].id <= p.id
  <2>1. CASE i = Len(q) + 1
    BY <1>1, <1>3, <2>1
  <2>2. CASE i \in 1..Len(q)
    BY <1>1, <1>2, <1>3, <2>2
  <2> QED BY <1>1, <2>1, <2>2
<1>5. ASSUME NEW i \in 1..Len(r), NEW j \in 1..Len(r), i < j PROVE r[i].id < r[j].id
  <2>1. i \in 1..Len(q)
    BY <1>1, <1>5
  <2>2. CASE j = Len(q) + 1
    BY <1>1, <1>2, <1>3, <2>1, <2>2
  <2>3. CASE j \in 1..Len(q)
    BY <1>1, <1>5, <2>1, <2>3
  <2> QED BY <1>1, <2>2, <2>3
<1> QED BY <1>1, <1>4, <1>5

\* What is left behind the head of the queue is in order.
LEMMA TailKeepsOrder ==
  ASSUME IngestInv, queue # <<>>
  PROVE  LET q == Tail(queue) IN
           /\ q \in Seq(Payloads) /\ Len(q) = Len(queue) - 1
           /\ \A i \in 1..Len(q) : Valid(q[i]) /\ q[i].id <= lastFrameId
           /\ \A i, j \in 1..Len(q) : i < j => q[i].id < q[j].id
<1> DEFINE q == Tail(queue)
<1>1. /\ q \in Seq(Payloads) /\ Len(q) = Len(queue) - 1 /\ Len(queue) \in Nat
      /\ \A i \in 1..Len(q) : q[i] = queue[i + 1] /\ i + 1 \in 1..Len(queue)
  BY DEF IngestInv
<1>2. \A i \in 1..Len(q) : Valid(q[i]) /\ q[i].id <= lastFrameId
  BY <1>1 DEF IngestInv, QueueInOrder
<1>3. ASSUME NEW i \in 1..Len(q), NEW j \in 1..Len(q), i < j PROVE q[i].id < q[j].id
  BY <1>1, <1>3 DEF IngestInv, QueueInOrder
<1> QED BY <1>1, <1>2, <1>3

LEMMA SubmitKeepsOrder ==
  ASSUME IngestInv, NEW p \in Payloads, Submit(p)
  PROVE  IngestInv'
<1>1. Accepts(p) /\ lastFrameId' = p.id /\ p.id \in Int /\ p.id > lastFrameId
  BY DEF Submit, Accepts, Payloads
<1>2. Len(queue) \in Nat /\ Len(queue) <= Capacity /\ Capacity \in Nat \ {0}
  BY IngestAssumption DEF IngestInv, QueueInOrder
<1>3. CASE Len(queue) < Capacity
  <2>1. queue' = Append(queue, p)
    BY <1>3, <1>2 DEF Submit, Push
  <2> QED BY <1>1, <1>2, <1>3, <2>1, AppendKeepsOrder DEF IngestInv, QueueInOrder
<1>4. CASE Len(queue) >= Capacity /\ DropPolicy = "DROP_OLDEST"
  <2>1. queue' = Append(Tail(queue), p)
    BY <1>4, <1>2 DEF Submit, Push
  <2>2. queue # <<>>
    BY <1>2, <1>4 DEF IngestInv
  <2> DEFINE q == Tail(queue)
  <2>3. /\ q \in Seq(Payloads) /\ Len(q) = Len(queue) - 1 /\ lastFrameId \in Int
        /\ \A i \in 1..Len(q) : Valid(q[i]) /\ q[i].id <= lastFrameId
        /\ \A i, j \in 1..Len(q) : i < j => q[i].id < q[j].id
    BY <2>2, TailKeepsOrder DEF IngestInv
  <2> HIDE DEF q
  <2>4. queue' = Append(q, p)
    BY <2>1 DEF q
  <2>5. /\ queue' \in Seq(Payloads) /\ Len(queue') = Len(q) + 1
        /\ \A i \in 1..Len(queue') : Valid(queue'[i]) /\ queue'[i].id <= p.id
        /\ \A i, j \in 1..Len(queue') : i < j => queue'[i].id < queue'[j].id
    BY <1>1, <2>3, <2>4, AppendKeepsOrder
  <2> QED BY <1>1, <1>2, <2>3, <2>5 DEF IngestInv, QueueInOrder
<1>5. CASE Len(queue) >= Capacity /\ DropPolicy = "DROP_NEWEST"
  <2>1. queue' = queue
    BY <1>5, <1>2 DEF Submit, Push
  <2>2. \A i \in 1..Len(queue) : queue[i].id \in Int
    BY PayloadsHaveIds DEF IngestInv
  <2> QED BY <1>1, <2>1, <2>2 DEF IngestInv, QueueInOrder
<1> QED BY <1>2, <1>3, <1>4, <1>5, IngestAssumption

\* Whichever end of a full queue gives way, the frames that wait for a cycle
\* are valid, within the capacity and in the order of their ids: the policy on
\* the ids, not the queue, keeps a repeated or late frame out.
THEOREM FramesWaitInOrder == IngestSpec => []QueueInOrder
<1>1. IngestInit => IngestInv
  BY IngestAssumption DEF IngestInit, IngestInv, QueueInOrder, Unseen
<1>2. IngestInv /\ [IngestNext]_ingestVars => IngestInv'
  <2> SUFFICES ASSUME IngestInv, [IngestNext]_ingestVars PROVE IngestInv'
    OBVIOUS
  <2>1. CASE \E p \in Payloads : Submit(p)
    BY <2>1, SubmitKeepsOrder
  <2>2. CASE NextCycleInput
    <3>1. queue # <<>> /\ queue' = Tail(queue) /\ lastFrameId' = lastFrameId
      BY <2>2 DEF NextCycleInput
    <3>2. Len(queue) <= Capacity /\ Len(queue) \in Nat /\ Capacity \in Nat
      BY IngestAssumption DEF IngestInv, QueueInOrder
    <3> QED BY <3>1, <3>2, TailKeepsOrder DEF IngestInv, QueueInOrder
  <2>3. CASE UNCHANGED ingestVars
    BY <2>3 DEF ingestVars, IngestInv, QueueInOrder
  <2> QED BY <2>1, <2>2, <2>3 DEF IngestNext
<1>3. IngestInv => QueueInOrder
  BY DEF IngestInv
<1> QED BY <1>1, <1>2, <1>3, PTL DEF IngestSpec

-----------------------------------------------------------------------------
(* The cycle of a bench run.                                               *)

Quiet == \/ Edit \/ Reload \/ ReloadRaised \/ RunAgain \/ NextFrame \/ Call \/ SubmitFrame \/ TakeFrame
         \/ BeginCycle \/ Decide \/ EndCycle \/ Configure \/ OpenSource \/ Evaluate \/ WriteArtifacts

\* Only the handling of a detection touches the keys and the wire.
LEMMA QuietSteps == ASSUME Quiet PROVE UNCHANGED wireVars
<1>1. CASE Edit \/ Reload \/ ReloadRaised \/ RunAgain
  BY <1>1 DEF Edit, Reload, ReloadRaised, RunAgain
<1>2. CASE NextFrame \/ Call \/ SubmitFrame \/ TakeFrame \/ BeginCycle
  BY <1>2 DEF NextFrame, Call, SubmitFrame, TakeFrame, BeginCycle
<1>3. CASE Decide \/ EndCycle
  BY <1>3 DEF Decide, EndCycle
<1>4. CASE Configure \/ OpenSource \/ Evaluate \/ WriteArtifacts
  BY <1>4 DEF Configure, OpenSource, Evaluate, WriteArtifacts, rest
<1> QED BY <1>1, <1>2, <1>3, <1>4 DEF Quiet

\* Counting one more, whether the key is counted or not.
LEMMA CountUp ==
  ASSUME NEW S, NEW f \in [S -> Nat], NEW key
  PROVE  [f EXCEPT ![key] = @ + 1] \in [S -> Nat]
<1>1. CASE key \in S
  BY <1>1
<1>2. CASE key \notin S
  BY <1>2
<1> QED BY <1>1, <1>2

-----------------------------------------------------------------------------
(* At most once.                                                           *)

\* A key that was not issued was never sent.
IssuedInv ==
  /\ sends \in [Keys -> Nat]
  /\ fallback = "SAFE" => \A k \in Keys : sends[k] <= 1 /\ (k \notin issued => sends[k] = 0)

\* What is sent is sent under its key; with the SAFE fallback under a new one.
LEMMA SendsUnderKey ==
  ASSUME HandleDetection
  PROVE  \E d : /\ sends' = sends \/ sends' = [sends EXCEPT ![KeyOf(d)] = @ + 1]
                /\ issued \subseteq issued'
                /\ fallback = "SAFE" /\ sends' # sends =>
                     Command(d) /\ KeyOf(d) \notin issued /\ issued' = issued \cup {KeyOf(d)}
                /\ UNCHANGED fallback
<1> DEFINE d == cycle.frame.detections[cycle.i]
<1>1. issued' = IF Command(d) THEN issued \cup {KeyOf(d)} ELSE issued
  BY DEF HandleDetection
<1>2. UNCHANGED fallback
  BY DEF HandleDetection, driverVars
<1>3. CASE ToBeSent(d) /\ ~FallbackOutOfRange(d)
  <2>1. sends' = [sends EXCEPT ![KeyOf(d)] = @ + 1]
    BY <1>3 DEF HandleDetection, Send
  <2>2. fallback = "SAFE" => Command(d) /\ KeyOf(d) \notin issued
    BY <1>3 DEF ToBeSent, Kept, Duplicate, RejectsOnTimeout
  <2> QED BY <2>1, <2>2, <1>1, <1>2
<1>4. CASE ~(ToBeSent(d) /\ ~FallbackOutOfRange(d))
  <2>1. sends' = sends
    BY <1>4 DEF HandleDetection
  <2> QED BY <2>1, <1>1, <1>2
<1> QED BY <1>3, <1>4

LEMMA IssuedStep == IssuedInv /\ [Next]_vars => IssuedInv'
<1> SUFFICES ASSUME IssuedInv, [Next]_vars PROVE IssuedInv'
  OBVIOUS
<1>1. CASE HandleDetection
  <2>1. PICK d : /\ sends' = sends \/ sends' = [sends EXCEPT ![KeyOf(d)] = @ + 1]
                 /\ issued \subseteq issued'
                 /\ fallback = "SAFE" /\ sends' # sends =>
                      Command(d) /\ KeyOf(d) \notin issued /\ issued' = issued \cup {KeyOf(d)}
                 /\ UNCHANGED fallback
    BY <1>1, SendsUnderKey
  <2>2. CASE sends' = sends
    BY <2>1, <2>2 DEF IssuedInv
  <2>3. CASE sends' # sends
    <3>1. sends' = [sends EXCEPT ![KeyOf(d)] = @ + 1]
      BY <2>1, <2>3
    <3>2. sends' \in [Keys -> Nat]
      BY <3>1, CountUp DEF IssuedInv
    <3>3. fallback = "SAFE" => \A k \in Keys : sends'[k] <= 1 /\ (k \notin issued' => sends'[k] = 0)
      BY <2>1, <2>3, <3>1 DEF IssuedInv
    <3> QED BY <2>1, <3>2, <3>3 DEF IssuedInv
  <2> QED BY <2>2, <2>3
<1>2. CASE Quiet
  <2>1. fallback' = fallback
    BY <1>2 DEF Quiet, Edit, Reload, ReloadRaised, RunAgain, NextFrame, Call, SubmitFrame, TakeFrame,
                BeginCycle, Decide, EndCycle, Configure, OpenSource, Evaluate, WriteArtifacts, rest, driverVars
  <2> QED BY <1>2, <2>1, QuietSteps DEF IssuedInv, wireVars
<1>3. CASE UNCHANGED vars
  BY <1>3 DEF vars, wireVars, driverVars, IssuedInv
<1> QED BY <1>1, <1>2, <1>3 DEF Next, Quiet

\* With the SAFE fallback an object of a frame is sent at most once: run_cycle
\* enters the key of a command before anything can be sent for it.
THEOREM ObjectsAreSentOnce == Spec => []NoObjectSentTwice
<1>1. Init => IssuedInv
  BY DEF Init, IssuedInv
<1>2. IssuedInv => NoObjectSentTwice
  BY DEF IssuedInv, NoObjectSentTwice
<1> QED BY <1>1, <1>2, IssuedStep, PTL DEF Spec

-----------------------------------------------------------------------------
(* The cycle in hand.                                                      *)

\* The shapes of a cycle from its beginning on; a cycle sends only while the
\* pipeline rests.
SendingInv ==
  /\ cycle.at = "decide" => cycle = [at |-> "decide", frame |-> cycle.frame, again |-> cycle.again]
  /\ cycle.at = "send" =>
       /\ at = "idle" /\ cycle.i \in Nat \ {0}
       /\ cycle = [at |-> "send", frame |-> cycle.frame, again |-> cycle.again, i |-> cycle.i,
                   late |-> cycle.late, over |-> cycle.over]

LEMMA SendingInitially == Init => SendingInv
BY DEF Init, SendingInv, Free

\* The pipeline's own steps run before the decisions only.
LEMMA StepsBeforeDecisions == PipelineSteps => at # "idle"
BY DEF PipelineSteps, ConstructGeometry, ConstructMtime, LookAtLane, LoadLane, LookAtCalibration,
       LoadCalibration

LEMMA NextDetection ==
  ASSUME SendingInv, cycle.at = "send", cycle' = [cycle EXCEPT !.i = @ + 1]
  PROVE  /\ cycle'.at = "send" /\ cycle'.i = cycle.i + 1 /\ cycle'.i \in Nat \ {0}
         /\ cycle'.frame = cycle.frame /\ cycle'.again = cycle.again
         /\ cycle' = [at |-> "send", frame |-> cycle'.frame, again |-> cycle'.again, i |-> cycle'.i,
                      late |-> cycle'.late, over |-> cycle'.over]
BY DEF SendingInv

LEMMA Again ==
  ASSUME SendingInv, RunAgain
  PROVE  /\ cycle.at = "decide" /\ cycle'.at = "decide" /\ cycle'.frame = cycle.frame
         /\ cycle' = [at |-> "decide", frame |-> cycle'.frame, again |-> cycle'.again]
         /\ at = "raised" /\ at' = "lane"
BY DEF RunAgain, SendingInv

LEMMA SendingStep == SendingInv /\ [Next]_vars => SendingInv'
<1> SUFFICES ASSUME SendingInv, [Next]_vars PROVE SendingInv'
  OBVIOUS
<1>1. CASE Edit \/ Reload
  <2>1. UNCHANGED cycle
    BY <1>1 DEF Edit, Reload
  <2>2. cycle.at = "send" => at' = at
    BY <1>1, StepsBeforeDecisions DEF Edit, Reload, EditFiles, EditGeometry, EditCalibration, pipelineVars,
                                      SendingInv
  <2> QED BY <2>1, <2>2 DEF SendingInv
<1>2. CASE ReloadRaised
  BY <1>2 DEF ReloadRaised, Raise, Free, SendingInv
<1>3. CASE RunAgain
  BY <1>3, Again DEF SendingInv
<1>4. CASE NextFrame \/ Call \/ SubmitFrame \/ TakeFrame \/ EndCycle
  BY <1>4 DEF NextFrame, Call, SubmitFrame, TakeFrame, EndCycle, Ready, Raise, Free, SendingInv
<1>5. CASE BeginCycle
  BY <1>5 DEF BeginCycle, SendingInv
<1>6. CASE Decide
  BY <1>6 DEF Decide, Raise, Free, SendingInv
<1>7. CASE HandleDetection
  <2>1. cycle.at = "send" /\ UNCHANGED at
    BY <1>7 DEF HandleDetection, pipelineVars
  <2>2. cycle' = [cycle EXCEPT !.i = @ + 1] \/ cycle' = Free
    BY <1>7 DEF HandleDetection, Send, Raise
  <2>3. CASE cycle' = Free
    BY <2>3 DEF Free, SendingInv
  <2>4. CASE cycle' = [cycle EXCEPT !.i = @ + 1]
    BY <2>1, <2>4, NextDetection DEF SendingInv
  <2> QED BY <2>2, <2>3, <2>4
<1>8. CASE Configure \/ OpenSource \/ Evaluate \/ WriteArtifacts \/ UNCHANGED vars
  BY <1>8 DEF Configure, OpenSource, Evaluate, WriteArtifacts, rest, vars, pipelineVars, SendingInv
<1> QED BY <1>1, <1>2, <1>3, <1>4, <1>5, <1>6, <1>7, <1>8 DEF Next

-----------------------------------------------------------------------------
(* The stages of a cycle.                                                  *)

BeforeBuilt == {"new", "constructed", "calibration", "load_calibration", "raised"}
OnceBuilt   == {"idle", "lane", "load_lane", "calibration", "load_calibration", "decide", "raised"}

\* The pipeline runs for a constructor, or for a cycle that waits for it, also
\* when it raised; the queue holds a frame between submit and take only.
StageInv ==
  /\ built \in BOOLEAN
  /\ cycle.at \in {"free", "submit", "queued", "run", "decide", "send"}
  /\ ~built => at \in BeforeBuilt /\ cycle.at = "free"
  /\ built  => at \in OnceBuilt /\ (cycle.at = "decide" <=> at # "idle")
  /\ IF cycle.at = "queued" THEN queue = <<queue[1]>> ELSE queue = <<>>

LEMMA StageInitially == Init => StageInv
<1> SUFFICES ASSUME Init PROVE StageInv
  OBVIOUS
<1>1. built = FALSE /\ at = "new" /\ queue = <<>> /\ cycle.at = "free"
  BY DEF Init, IngestInit, PipelineInit, Free
<1> QED BY <1>1 DEF StageInv, BeforeBuilt

LEMMA ReloadKeepsStage == ASSUME StageInv, Reload PROVE StageInv'
<1>1. UNCHANGED <<cycle, queue>> /\ PipelineSteps
  BY DEF Reload, ingestVars
<1>2. /\ at # "idle" /\ (~built => built' = built \/ at' = "idle")
      /\ built => built' = TRUE /\ at' \in OnceBuilt \ {"idle"}
      /\ ~built /\ ~built' => at' \in BeforeBuilt
      /\ built' \in BOOLEAN
  <2>1. CASE ConstructGeometry \/ ConstructMtime
    BY <2>1 DEF ConstructGeometry, ConstructMtime, StageInv, BeforeBuilt, OnceBuilt
  <2>2. CASE LookAtLane \/ LoadLane
    BY <2>2 DEF LookAtLane, LoadLane, StageInv, BeforeBuilt, OnceBuilt
  <2>3. CASE LookAtCalibration \/ LoadCalibration
    BY <2>3 DEF LookAtCalibration, LoadCalibration, Calibrated, StageInv, BeforeBuilt, OnceBuilt
  <2> QED BY <1>1, <2>1, <2>2, <2>3 DEF PipelineSteps
<1>3. CASE built
  BY <1>1, <1>2, <1>3 DEF StageInv
<1>4. CASE ~built
  BY <1>1, <1>2, <1>4 DEF StageInv, OnceBuilt
<1> QED BY <1>3, <1>4

\* A frame put into the empty queue is the only one there.
LEMMA SubmitIntoEmpty ==
  ASSUME StageInv, cycle.at = "submit", Submit(cycle.frame)
  PROVE  queue' = <<cycle.frame>>
<1>1. queue = <<>> /\ Capacity \in Nat \ {0}
  BY IngestAssumption DEF StageInv
<1>2. Len(queue) < Capacity
  BY <1>1
<1>3. queue' = Append(queue, cycle.frame)
  BY <1>1, <1>2 DEF Submit, Push
<1> QED BY <1>1, <1>3

LEMMA StageStep == SendingInv /\ StageInv /\ [Next]_vars => StageInv'
<1> SUFFICES ASSUME SendingInv, StageInv, [Next]_vars PROVE StageInv'
  OBVIOUS
<1>1. CASE Reload
  BY <1>1, ReloadKeepsStage
<1>2. CASE SubmitFrame
  <2>1. UNCHANGED <<built, at>> /\ cycle.at = "submit"
    BY <1>2 DEF SubmitFrame, pipelineVars
  <2>2. CASE Submit(cycle.frame) /\ cycle' = [at |-> "queued"]
    <3>1. queue' = <<cycle.frame>>
      BY <2>1, <2>2, SubmitIntoEmpty
    <3>2. queue' = <<queue'[1]>>
      BY <3>1
    <3> QED BY <2>1, <2>2, <3>2 DEF StageInv
  <2>3. CASE Refuse(cycle.frame) /\ Raise
    BY <2>1, <2>3 DEF Refuse, Raise, Free, ingestVars, StageInv
  <2> QED BY <1>2, <2>2, <2>3 DEF SubmitFrame
<1>3. CASE TakeFrame
  <2>1. UNCHANGED <<built, at>> /\ cycle.at = "queued" /\ cycle'.at = "run" /\ queue' = Tail(queue)
    BY <1>3 DEF TakeFrame, NextCycleInput, pipelineVars
  <2>2. queue = <<queue[1]>>
    BY <2>1 DEF StageInv
  <2>3. Tail(<<queue[1]>>) = <<>>
    OBVIOUS
  <2>4. queue' = <<>>
    BY <2>1, <2>2, <2>3
  <2> QED BY <2>1, <2>4 DEF StageInv
<1>4. CASE NextFrame \/ Call
  <2>1. UNCHANGED <<built, at, queue>> /\ at = "idle" /\ cycle.at = "free"
    BY <1>4 DEF NextFrame, Call, Ready, Free, pipelineVars, ingestVars
  <2>2. cycle'.at \in {"free", "submit", "run"}
    BY <1>4 DEF NextFrame, Call, Raise, Free
  <2> QED BY <2>1, <2>2 DEF StageInv, BeforeBuilt
<1>5. CASE BeginCycle \/ Decide \/ EndCycle
  <2>1. UNCHANGED <<built, queue>> /\ cycle.at # "queued"
    BY <1>5 DEF BeginCycle, Decide, EndCycle, pipelineVars, ingestVars, StageInv, BeforeBuilt, OnceBuilt
  <2>2. CASE BeginCycle
    BY <2>1, <2>2 DEF BeginCycle, StageInv, OnceBuilt
  <2>3. CASE Decide
    BY <2>1, <2>3 DEF Decide, Raise, Free, StageInv, OnceBuilt, BeforeBuilt
  <2>4. CASE EndCycle
    BY <2>1, <2>4 DEF EndCycle, Free, pipelineVars, StageInv, OnceBuilt
  <2> QED BY <1>5, <2>2, <2>3, <2>4
<1>6. CASE ReloadRaised
  BY <1>6 DEF ReloadRaised, Raise, Free, ingestVars, StageInv, OnceBuilt
<1>7. CASE HandleDetection
  <2>1. UNCHANGED <<built, at, queue>> /\ cycle.at = "send"
    BY <1>7 DEF HandleDetection, pipelineVars, ingestVars
  <2>2. cycle' = [cycle EXCEPT !.i = @ + 1] \/ cycle' = Free
    BY <1>7 DEF HandleDetection, Send, Raise
  <2>3. cycle'.at \in {"send", "free"}
    BY <2>1, <2>2 DEF SendingInv, Free
  <2> QED BY <2>1, <2>3 DEF StageInv
<1>8. CASE Edit \/ Configure \/ OpenSource \/ Evaluate \/ WriteArtifacts \/ UNCHANGED vars
  <2>1. UNCHANGED <<built, at, queue, cycle>>
    BY <1>8 DEF Edit, EditFiles, EditGeometry, EditCalibration, Configure, OpenSource, Evaluate, WriteArtifacts,
                rest, vars, pipelineVars, ingestVars
  <2> QED BY <2>1 DEF StageInv
<1>9. CASE RunAgain
  <2>1. UNCHANGED <<built, queue>> /\ cycle.at = "decide" /\ cycle'.at = "decide" /\ at' = "lane"
    BY <1>9, Again DEF RunAgain, ingestVars
  <2> QED BY <2>1 DEF StageInv, OnceBuilt
<1> QED BY <1>1, <1>2, <1>3, <1>4, <1>5, <1>6, <1>7, <1>8, <1>9 DEF Next

\* The steps of the cycle and of the pipeline go together: nothing reloads
\* under a cycle that sends, and a cycle that is over, also by an exception,
\* leaves no frame in the queue for the next one.
THEOREM StagesGoTogether == Spec => []CycleTypeOK
<1>1. StageInv => CycleTypeOK
  BY DEF StageInv, CycleTypeOK, BeforeBuilt, OnceBuilt
<1> QED BY <1>1, SendingInitially, SendingStep, StageInitially, StageStep, PTL DEF Spec

-----------------------------------------------------------------------------
(* The belt travel.                                                        *)

LEMMA DivMod ==
  ASSUME NEW x \in Nat, NEW u \in Nat \ {0}
  PROVE  x \div u \in Nat /\ x % u \in 0..u - 1 /\ x = u * (x \div u) + (x % u)
<1>1. x % u \in 0..u - 1
  OBVIOUS
<1>2. x \div u \in Int
  OBVIOUS
<1>3. x \div u >= 0
  OBVIOUS
<1>4. x = u * (x \div u) + (x % u)
  OBVIOUS
<1> QED BY <1>1, <1>2, <1>3, <1>4

LEMMA Products ==
  ASSUME NEW p \in Nat, NEW k \in Nat, NEW u \in Nat \ {0}, k <= u
  PROVE  p * k \in Nat /\ p * u \in Nat /\ p * k <= p * u /\ (p * u) % u = 0
<1>1. p * k \in Nat /\ p * u \in Nat
  OBVIOUS
<1>2. p * k <= p * u
  OBVIOUS
<1>3. (p * u) % u = 0
  OBVIOUS
<1> QED BY <1>1, <1>2, <1>3

\* A window of t units over an accumulator of a: p pulses of u units, of which
\* k are kept, make q pulses.
LEMMA Arithmetic ==
  ASSUME NEW a \in Nat, NEW t \in Nat, NEW u \in Nat \ {0}, NEW k \in Nat, k <= u,
         NEW p, p = (a + t) \div u, NEW q, q = (p * k) \div u
  PROVE  /\ p \in Nat /\ q \in Nat /\ (a + t) % u \in Nat /\ (p * k) % u \in Nat
         /\ (a + t) % u <= a + t
         /\ ((a + t) % u) + ((p * k) % u) + q * u <= a + t
         /\ k = u => ((a + t) % u) + ((p * k) % u) + q * u = a + t
<1> DEFINE total == a + t
           part  == p * k
<1>1. total \in Nat
  OBVIOUS
<1>2. p = total \div u /\ q = part \div u
  OBVIOUS
<1>3. p \in Nat /\ total % u \in Nat /\ total = u * p + (total % u)
  <2> HIDE DEF total
  <2> QED BY <1>1, <1>2, DivMod
<1>4. part \in Nat /\ part <= p * u /\ p * u \in Nat /\ (k = u => part = p * u)
  BY <1>3, Products
<1>5. q \in Nat /\ part % u \in Nat /\ part = u * q + (part % u)
  <2>1. part \div u \in Nat /\ part % u \in Nat /\ part = u * (part \div u) + (part % u)
    <3> HIDE DEF part
    <3> QED BY <1>4, DivMod
  <2> HIDE DEF part
  <2> QED BY <1>2, <2>1
<1>6. u * p = p * u /\ u * q = q * u /\ q * u \in Nat
  BY <1>3, <1>5
<1>7. /\ total % u <= total
      /\ (total % u) + (part % u) + q * u <= total
      /\ k = u => (total % u) + (part % u) + q * u = total
  <2> DEFINE pu == p * u
             qu == q * u
             r1 == total % u
             r2 == part % u
  <2>1. /\ total = pu + r1 /\ part = qu + r2 /\ part <= pu /\ (k = u => part = pu)
        /\ total \in Nat /\ part \in Nat /\ pu \in Nat /\ qu \in Nat /\ r1 \in Nat /\ r2 \in Nat
    BY <1>1, <1>3, <1>4, <1>5, <1>6
  <2> HIDE DEF total, part, pu, qu, r1, r2
  <2>2. r1 <= total /\ r1 + r2 + qu <= total /\ (k = u => r1 + r2 + qu = total)
    BY <2>1
  <2> QED BY <2>2 DEF pu, qu, r1, r2
<1> QED BY <1>3, <1>5, <1>7

\* The pulses of a window, the part that is kept, and what stays behind.
LEMMA WindowIsConserved ==
  ASSUME NEW e, e.accumulator \in Nat, NEW travel \in Nat, NEW kept, NEW after,
         kept = KeptPulses(Pulses(e, travel)), after = AccumulatorAfter(e, travel)
  PROVE  /\ after \in Nat /\ kept \in Nat
         /\ after + kept * UnitsPerPulse <= e.accumulator + travel
         /\ UnitsKept = UnitsPerPulse /\ EncoderFault # "missing_pulses" =>
              after + kept * UnitsPerPulse = e.accumulator + travel
<1> DEFINE a == e.accumulator
           p == (a + travel) \div UnitsPerPulse
           q == (p * UnitsKept) \div UnitsPerPulse
<1>1. UnitsPerPulse \in Nat \ {0} /\ UnitsKept \in Nat /\ UnitsKept <= UnitsPerPulse /\ a \in Nat
  BY EncoderAssumption
<1>2. /\ q \in Nat /\ (a + travel) % UnitsPerPulse \in Nat /\ (p * UnitsKept) % UnitsPerPulse \in Nat
      /\ (a + travel) % UnitsPerPulse <= a + travel
      /\ ((a + travel) % UnitsPerPulse) + ((p * UnitsKept) % UnitsPerPulse) + q * UnitsPerPulse <= a + travel
      /\ UnitsKept = UnitsPerPulse =>
           ((a + travel) % UnitsPerPulse) + ((p * UnitsKept) % UnitsPerPulse) + q * UnitsPerPulse = a + travel
  <2> HIDE DEF a
  <2> QED BY <1>1, Arithmetic
<1>3. Pulses(e, travel) = p
  BY DEF Pulses
<1>4. CASE EncoderFault = "missing_pulses"
  <2>1. kept = 0 /\ after = ((a + travel) % UnitsPerPulse) + 0
    BY <1>4 DEF KeptPulses, AccumulatorAfter
  <2>2. kept * UnitsPerPulse = 0
    BY <1>1, <2>1
  <2> HIDE DEF p, q
  <2> QED BY <1>1, <1>2, <1>4, <2>1, <2>2
<1>5. CASE EncoderFault # "missing_pulses"
  <2>1. kept = q
    BY <1>3, <1>5 DEF KeptPulses
  <2>2. after = ((a + travel) % UnitsPerPulse) + ((p * UnitsKept) % UnitsPerPulse)
    BY <1>3, <1>5 DEF AccumulatorAfter
  <2> DEFINE r1 == (a + travel) % UnitsPerPulse
             r2 == (p * UnitsKept) % UnitsPerPulse
             qu == q * UnitsPerPulse
  <2>3. qu \in Nat
    BY <1>1, <1>2
  <2>4. /\ r1 \in Nat /\ r2 \in Nat /\ after = r1 + r2 /\ kept * UnitsPerPulse = qu
        /\ r1 + r2 + qu <= a + travel /\ (UnitsKept = UnitsPerPulse => r1 + r2 + qu = a + travel)
    BY <1>2, <2>1, <2>2
  <2>5. kept \in Nat
    BY <1>2, <2>1
  <2> HIDE DEF r1, r2, qu, p, q
  <2> QED BY <1>1, <2>3, <2>4, <2>5
<1> QED BY <1>4, <1>5

AllFrames == UNION {SeenFrames(id, previous) : id \in Int, previous \in Int}

\* The frames on their way to a cycle have times.
FramesInv ==
  /\ next \in Nat
  /\ queue \in Seq(AllFrames)
  /\ cycle.at \in {"submit", "run", "decide", "send"} => cycle.frame \in AllFrames

TravelInv == enc.accumulator \in Nat /\ unemitted \in Int /\ PulsesAreConserved

LEMMA FrameTimes == \A f \in AllFrames : f.timestamp \in Int /\ f.previous \in Int
BY DEF AllFrames, SeenFrames

LEMMA FramesInitially == Init => FramesInv
BY DEF Init, IngestInit, Free, FramesInv

LEMMA PushKeepsFrames ==
  ASSUME queue \in Seq(AllFrames), NEW item \in AllFrames
  PROVE  Push(item) \in Seq(AllFrames)
<1>1. CASE Len(queue) < Capacity
  <2>1. Append(queue, item) \in Seq(AllFrames)
    OBVIOUS
  <2>2. Push(item) = Append(queue, item)
    BY <1>1, IngestAssumption DEF Push
  <2> QED BY <2>1, <2>2
<1>2. CASE Len(queue) >= Capacity /\ DropPolicy = "DROP_OLDEST"
  <2>1. queue # <<>>
    BY <1>2, IngestAssumption
  <2> QED BY <1>2, <2>1, IngestAssumption DEF Push
<1>3. CASE Len(queue) >= Capacity /\ DropPolicy = "DROP_NEWEST"
  BY <1>3, IngestAssumption DEF Push
<1> QED BY <1>1, <1>2, <1>3, IngestAssumption

LEMMA FramesStep == SendingInv /\ StageInv /\ FramesInv /\ [Next]_vars => FramesInv'
<1> SUFFICES ASSUME SendingInv, StageInv, FramesInv, [Next]_vars PROVE FramesInv'
  OBVIOUS
<1>1. CASE NextFrame
  <2>1. CASE \E id \in {next, next + 1} \cap (0..MaxFrames - 1) :
               \E frame \in SeenFrames(id, IF next = 0 THEN 0 ELSE next - 1) :
                 cycle' = [at |-> "submit", frame |-> frame] /\ next' = id + 1
    <3>0. PICK id \in {next, next + 1} \cap (0..MaxFrames - 1) :
            \E frame \in SeenFrames(id, IF next = 0 THEN 0 ELSE next - 1) :
              cycle' = [at |-> "submit", frame |-> frame] /\ next' = id + 1
      BY <2>1
    <3>1. PICK frame \in SeenFrames(id, IF next = 0 THEN 0 ELSE next - 1) :
            cycle' = [at |-> "submit", frame |-> frame] /\ next' = id + 1
      BY <3>0
    <3>2. frame \in AllFrames
      <4> DEFINE previous == IF next = 0 THEN 0 ELSE next - 1
      <4>1. id \in Int /\ previous \in Int
        BY DEF FramesInv
      <4>2. frame \in SeenFrames(id, previous)
        OBVIOUS
      <4> HIDE DEF previous
      <4> QED BY <4>1, <4>2 DEF AllFrames
    <3>3. next' \in Nat
      BY <3>1 DEF FramesInv
    <3>4. UNCHANGED queue
      BY <1>1 DEF NextFrame, ingestVars
    <3> QED BY <3>1, <3>2, <3>3, <3>4 DEF FramesInv
  <2>2. CASE cycle' = Free /\ UNCHANGED <<next, queue>>
    BY <2>2 DEF Free, FramesInv
  <2> QED BY <1>1, <2>1, <2>2 DEF NextFrame, Raise, ingestVars
<1>2. CASE Call
  <2>a. PICK id \in 0..MaxFrames - 1 :
          \E previous \in 0..id : \E frame \in SeenFrames(id, previous) :
            \E way \in {"submit", "run"} : cycle' = [at |-> way, frame |-> frame]
    BY <1>2 DEF Call
  <2>b. PICK previous \in 0..id :
          \E frame \in SeenFrames(id, previous) :
            \E way \in {"submit", "run"} : cycle' = [at |-> way, frame |-> frame]
    BY <2>a
  <2>1. PICK frame \in SeenFrames(id, previous) :
          \E way \in {"submit", "run"} : cycle' = [at |-> way, frame |-> frame]
    BY <2>b
  <2>2. frame \in AllFrames
    BY DEF AllFrames
  <2>3. UNCHANGED <<queue, next>>
    BY <1>2 DEF Call, ingestVars
  <2> QED BY <2>1, <2>2, <2>3 DEF FramesInv
<1>3. CASE SubmitFrame
  <2>1. cycle.frame \in AllFrames /\ UNCHANGED next
    BY <1>3 DEF SubmitFrame, FramesInv, driverVars
  <2>2. CASE Submit(cycle.frame) /\ cycle' = [at |-> "queued"]
    BY <2>1, <2>2, PushKeepsFrames DEF Submit, FramesInv
  <2>3. CASE Refuse(cycle.frame) /\ Raise
    BY <2>1, <2>3 DEF Refuse, Raise, Free, ingestVars, FramesInv
  <2> QED BY <1>3, <2>2, <2>3 DEF SubmitFrame
<1>4. CASE TakeFrame
  BY <1>4 DEF TakeFrame, NextCycleInput, FramesInv, driverVars
<1>5. CASE BeginCycle \/ EndCycle \/ ReloadRaised
  BY <1>5 DEF BeginCycle, EndCycle, ReloadRaised, Raise, Free, FramesInv, ingestVars, driverVars
<1>6. CASE Decide
  <2>1. cycle.at = "decide" /\ UNCHANGED <<queue, next>>
    BY <1>6 DEF Decide, StageInv, BeforeBuilt, ingestVars, driverVars
  <2> QED BY <1>6, <2>1 DEF Decide, Raise, Free, FramesInv
<1>7. CASE RunAgain
  BY <1>7, Again DEF RunAgain, FramesInv, ingestVars, driverVars
<1>8. CASE Edit \/ Reload \/ Configure \/ OpenSource \/ Evaluate \/ WriteArtifacts \/ UNCHANGED vars
  BY <1>8 DEF Edit, Reload, Configure, OpenSource, Evaluate, WriteArtifacts, rest, vars, FramesInv,
              ingestVars, driverVars
<1>9. CASE HandleDetection
  <2>1. UNCHANGED <<queue, next>>
    BY <1>9 DEF HandleDetection, ingestVars, driverVars
  <2>2. cycle' = [cycle EXCEPT !.i = @ + 1] \/ cycle' = Free
    BY <1>9 DEF HandleDetection, Send, Raise
  <2>3. cycle.at = "send"
    BY <1>9 DEF HandleDetection
  <2>4. CASE cycle' = Free
    BY <2>1, <2>4 DEF Free, FramesInv
  <2>5. CASE cycle' = [cycle EXCEPT !.i = @ + 1]
    BY <2>1, <2>3, <2>5, NextDetection DEF FramesInv
  <2> QED BY <2>2, <2>4, <2>5
<1> QED BY <1>1, <1>2, <1>3, <1>4, <1>5, <1>6, <1>7, <1>8, <1>9 DEF Next

LEMMA TravelType ==
  ASSUME NEW start \in Int, NEW end \in Int
  PROVE  Travel(start, end) \in Nat
<1>1. CASE EncoderFault = "zero_speed" \/ end < start
  BY <1>1 DEF Travel
<1>2. CASE ~(EncoderFault = "zero_speed" \/ end < start)
  <2>1. end - start \in Nat /\ Rate \in Nat
    BY <1>2, EncoderAssumption
  <2>2. Rate * (end - start) \in Nat
    BY <2>1
  <2> QED BY <1>2, <2>2 DEF Travel
<1> QED BY <1>1, <1>2

LEMMA TravelStep == FramesInv /\ TravelInv /\ [Next]_vars => TravelInv'
<1> SUFFICES ASSUME FramesInv, TravelInv, [Next]_vars PROVE TravelInv'
  OBVIOUS
<1>1. CASE BeginCycle
  <2> DEFINE f      == cycle.frame
             travel == Travel(f.previous, f.timestamp)
             kept   == KeptPulses(Pulses(enc, travel))
             after  == AccumulatorAfter(enc, travel)
  <2>1. f.previous \in Int /\ f.timestamp \in Int
    BY <1>1, FrameTimes DEF BeginCycle, FramesInv
  <2>2. travel \in Nat
    BY <2>1, TravelType
  <2>3. enc'.accumulator = after
    BY <1>1 DEF BeginCycle, EncoderAfter
  <2>4. unemitted' = unemitted + travel - kept * UnitsPerPulse
    BY <1>1 DEF BeginCycle
  <2>5. /\ after \in Nat /\ kept \in Nat
        /\ after + kept * UnitsPerPulse <= enc.accumulator + travel
        /\ UnitsKept = UnitsPerPulse /\ EncoderFault # "missing_pulses" =>
             after + kept * UnitsPerPulse = enc.accumulator + travel
    <3> HIDE DEF travel
    <3> QED BY <2>2, WindowIsConserved DEF TravelInv
  <2>6. kept * UnitsPerPulse \in Int
    BY <2>5, EncoderAssumption
  <2> DEFINE ku == kept * UnitsPerPulse
  <2>7. ku \in Int /\ unemitted' = unemitted + travel - ku /\ after + ku <= enc.accumulator + travel
        /\ (UnitsKept = UnitsPerPulse /\ EncoderFault # "missing_pulses" => after + ku = enc.accumulator + travel)
    BY <2>4, <2>5, <2>6
  <2> HIDE DEF ku, after, travel, kept
  <2> QED BY <2>2, <2>3, <2>5, <2>7 DEF TravelInv, PulsesAreConserved
<1>2. CASE UNCHANGED encoderVars
  BY <1>2 DEF encoderVars, TravelInv, PulsesAreConserved
<1>3. CASE \/ NextFrame \/ Call \/ SubmitFrame \/ TakeFrame \/ Decide \/ HandleDetection \/ EndCycle
          \/ ReloadRaised \/ RunAgain
  BY <1>2, <1>3 DEF NextFrame, Call, SubmitFrame, TakeFrame, Decide, HandleDetection, EndCycle,
                    ReloadRaised, RunAgain
<1>4. CASE Edit \/ Reload \/ Configure \/ OpenSource \/ Evaluate \/ WriteArtifacts \/ UNCHANGED vars
  BY <1>2, <1>4 DEF Edit, Reload, Configure, OpenSource, Evaluate, WriteArtifacts, rest, vars
<1> QED BY <1>1, <1>3, <1>4 DEF Next

\* The encoder emits what the belt has travelled and no more, whatever the
\* windows: pulses_between keeps the fraction of a pulse, also of the dropped
\* ones, in its accumulator.
THEOREM TravelIsConserved == Spec => []PulsesAreConserved
<1>1. Init => TravelInv
  BY DEF Init, NewEncoder, TravelInv, PulsesAreConserved
<1>2. TravelInv => PulsesAreConserved
  BY DEF TravelInv
<1> QED BY <1>1, <1>2, SendingInitially, SendingStep, StageInitially, StageStep,
           FramesInitially, FramesStep, TravelStep, PTL DEF Spec

-----------------------------------------------------------------------------
(* The calibration a job is sent with.                                     *)

InForce == calibration = NoCalibration \/ calibration >= wanted

\* The calibration in use is none or at least as new as the modification time
\* remembered; a cycle that has looked at the file has caught up with it.
CalibrationInv ==
  /\ calFile.version \in Nat /\ calMtime \in Int /\ calibration \in Int /\ wanted \in Int
  /\ calMtime <= calFile.version /\ wanted <= calFile.version
  /\ calibration = NoCalibration \/ calibration >= calMtime
  /\ at = "load_calibration" => seen \in Int /\ wanted <= seen /\ seen <= calFile.version
  /\ at = "decide" \/ cycle.at = "send" => InForce

LEMMA CalibrationInitially == Init => CalibrationInv
BY DEF Init, PipelineInit, Free, CalibrationInv, NoCalibration, InForce

\* The edits and the pipeline's own steps.
LEMMA FilesKeepCalibration ==
  ASSUME SendingInv, CalibrationInv, Edit \/ Reload
  PROVE  CalibrationInv'
<1>1. UNCHANGED <<wanted, cycle>>
  BY DEF Edit, Reload
<1>2. CASE Edit
  <2>1. UNCHANGED <<pipelineVars, calFile>> \/ (UNCHANGED pipelineVars /\ EditFile(calFile, CalKinds))
    BY <1>2 DEF Edit, EditFiles, EditGeometry, EditCalibration
  <2>2. UNCHANGED pipelineVars /\ (calFile'.version = calFile.version \/ calFile'.version = calFile.version + 1)
    BY <2>1 DEF EditFile
  <2> QED BY <1>1, <2>2 DEF pipelineVars, CalibrationInv, InForce
<1>3. CASE Reload
  <2>1. PipelineSteps /\ cycle.at # "send"
    BY <1>3, StepsBeforeDecisions DEF Reload, SendingInv
  <2>2. CASE ConstructGeometry \/ ConstructMtime \/ LookAtLane \/ LoadLane
    <3>1. UNCHANGED <<calFile, calibration, calMtime>> /\ at' \notin {"load_calibration", "decide"}
      BY <2>2 DEF ConstructGeometry, ConstructMtime, LookAtLane, LoadLane, fileVars
    <3> QED BY <1>1, <2>1, <3>1 DEF CalibrationInv
  <2>3. CASE LookAtCalibration
    <3>1. UNCHANGED <<calFile, calibration, calMtime>>
      BY <2>3 DEF LookAtCalibration, fileVars
    <3>2. CASE built /\ calFile.version = calMtime
      <4>1. at' \in {"decide", "idle"}
        BY <2>3, <3>2 DEF LookAtCalibration, Calibrated
      <4>2. InForce
        BY <3>2 DEF CalibrationInv, InForce
      <4> QED BY <1>1, <2>1, <3>1, <4>1, <4>2 DEF CalibrationInv, InForce
    <3>3. CASE ~(built /\ calFile.version = calMtime)
      <4>1. at' = "load_calibration" /\ seen' = calFile.version
        BY <2>3, <3>3 DEF LookAtCalibration
      <4> QED BY <1>1, <2>1, <3>1, <4>1 DEF CalibrationInv
    <3> QED BY <3>2, <3>3
  <2>4. CASE LoadCalibration
    <3>1. UNCHANGED calFile /\ at = "load_calibration"
      BY <2>4 DEF LoadCalibration, fileVars
    <3>2. CASE at' = "raised"
      <4>1. UNCHANGED <<calibration, calMtime>>
        BY <2>4, <3>2 DEF LoadCalibration, Calibrated
      <4> QED BY <1>1, <2>1, <3>1, <3>2, <4>1 DEF CalibrationInv
    <3>3. CASE at' # "raised"
      <4>1. calibration' = CalibrationRead /\ calMtime' = seen /\ at' \in {"decide", "idle"}
        BY <2>4, <3>3 DEF LoadCalibration, Calibrated
      <4>2. calibration' = NoCalibration \/ calibration' = calFile.version
        BY <4>1 DEF CalibrationRead
      <4> QED BY <1>1, <2>1, <3>1, <4>1, <4>2 DEF CalibrationInv, InForce, NoCalibration
    <3> QED BY <3>2, <3>3
  <2> QED BY <2>1, <2>2, <2>3, <2>4 DEF PipelineSteps
<1> QED BY <1>2, <1>3

LEMMA CalibrationStep == SendingInv /\ CalibrationInv /\ [Next]_vars => CalibrationInv'
<1> SUFFICES ASSUME SendingInv, CalibrationInv, [Next]_vars PROVE CalibrationInv'
  OBVIOUS
<1>1. CASE Edit \/ Reload
  BY <1>1, FilesKeepCalibration
<1>2. CASE BeginCycle
  BY <1>2 DEF BeginCycle, fileVars, CalibrationInv
<1>3. CASE HandleDetection
  <2>1. UNCHANGED <<calFile, calibration, calMtime, seen, at, wanted>> /\ cycle.at = "send"
    BY <1>3 DEF HandleDetection, fileVars, pipelineVars
  <2> QED BY <2>1 DEF CalibrationInv, InForce
<1>4. CASE Decide
  <2>1. UNCHANGED <<calFile, calibration, calMtime, seen, wanted>> /\ at = "decide" /\ at' = "idle"
    BY <1>4 DEF Decide, fileVars
  <2> QED BY <2>1 DEF CalibrationInv, InForce
<1>5. CASE NextFrame \/ Call \/ SubmitFrame \/ TakeFrame \/ EndCycle \/ ReloadRaised
  <2>1. UNCHANGED <<calFile, calibration, calMtime, seen, wanted>> /\ (at' = at \/ at' = "idle")
    BY <1>5 DEF NextFrame, Call, SubmitFrame, TakeFrame, EndCycle, ReloadRaised, fileVars, pipelineVars
  <2>2. cycle'.at # "send" \/ cycle' = cycle
    BY <1>5 DEF NextFrame, Call, SubmitFrame, TakeFrame, EndCycle, ReloadRaised, Raise, Free
  <2> QED BY <2>1, <2>2 DEF CalibrationInv, InForce
<1>6. CASE Configure \/ OpenSource \/ Evaluate \/ WriteArtifacts \/ UNCHANGED vars
  BY <1>6 DEF Configure, OpenSource, Evaluate, WriteArtifacts, rest, vars, fileVars, pipelineVars,
              CalibrationInv, InForce
<1>7. CASE RunAgain
  <2>1. UNCHANGED <<calFile, calibration, calMtime, seen, wanted>> /\ at' = "lane" /\ cycle'.at = "decide"
    BY <1>7, Again DEF RunAgain, fileVars
  <2> QED BY <2>1 DEF CalibrationInv
<1> QED BY <1>1, <1>2, <1>3, <1>4, <1>5, <1>6, <1>7 DEF Next

\* With the SAFE fallback a job on the wire was positioned with the calibration
\* its file held when the frame's cycle began, or a later one: _run_detections
\* looks at the file before it decides, whatever is edited in between.
THEOREM JobsAreCalibrated == Spec => SentWithCurrentCalibration
<1>1. SendingInv /\ CalibrationInv /\ [Next]_vars
        => [sends' # sends /\ fallback = "SAFE" => calibration >= wanted]_vars
  <2> SUFFICES ASSUME CalibrationInv, Next, sends' # sends, fallback = "SAFE"
               PROVE  calibration >= wanted
    OBVIOUS
  <2>1. HandleDetection
    BY QuietSteps DEF Next, Quiet, wireVars
  <2> DEFINE d == cycle.frame.detections[cycle.i]
  <2>2. ToBeSent(d)
    BY <2>1 DEF HandleDetection
  <2>3. Command(d)
    BY <2>2 DEF ToBeSent, Kept, RejectsOnTimeout
  <2>4. calibration # NoCalibration
    BY <2>3 DEF Command, HasCommand, Decision, ContextFault
  <2>5. cycle.at = "send"
    BY <2>1 DEF HandleDetection
  <2> QED BY <2>4, <2>5 DEF CalibrationInv, InForce
<1> QED BY <1>1, SendingInitially, SendingStep, CalibrationInitially, CalibrationStep, PTL
        DEF Spec, SentWithCurrentCalibration
-----------------------------------------------------------------------------
(* The trigger of a detection.                                             *)

\* A frame of the command line, as the encoder finds it: what was emitted
\* before is of its past.
Timely(f) ==
  /\ f.timestamp \in Nat /\ f.previous \in Nat /\ f.previous <= f.timestamp /\ f.timestamp < next
  /\ enc.last <= f.timestamp * Rate

\* The last pulse lies before the frame that is on its way or in hand, and
\* before every frame to come.
AheadInv ==
  /\ enc.last \in Int
  /\ driver = "cli" =>
       /\ cycle.at = "free" => enc.last <= next * Rate
       /\ cycle.at \in {"submit", "run", "decide", "send"} => Timely(cycle.frame)
       /\ cycle.at = "queued" => Timely(queue[1])

LEMMA AheadInitially == Init => AheadInv
<1> SUFFICES ASSUME Init PROVE AheadInv
  OBVIOUS
<1>1. next = 0 /\ enc.last = -1 /\ cycle.at = "free" /\ Rate \in Nat
  BY EncoderAssumption DEF Init, NewEncoder, NoPulse, Free
<1>2. next * Rate = 0
  BY <1>1
<1> QED BY <1>1, <1>2 DEF AheadInv

LEMMA Scaled ==
  ASSUME NEW x \in Int, NEW y \in Int, x <= y
  PROVE  x * Rate \in Int /\ y * Rate \in Int /\ x * Rate <= y * Rate
<1>1. Rate \in Nat
  BY EncoderAssumption
<1>2. x * Rate \in Int /\ y * Rate \in Int
  BY <1>1
<1>3. y - x \in Nat
  OBVIOUS
<1>4. (y - x) * Rate \in Nat
  BY <1>1, <1>3
<1>5. y * Rate = x * Rate + (y - x) * Rate
  BY <1>1
<1> QED BY <1>2, <1>4, <1>5

\* The clamp keeps a pulse inside its window.
LEMMA StampInWindow ==
  ASSUME NEW e, e.accumulator \in Nat, NEW start \in Int, NEW end \in Int
  PROVE  LET stamp == Stamp(e, start, Travel(start, end)) IN
           stamp \in Int /\ (stamp = NoPulse \/ stamp <= end * Rate)
<1> DEFINE travel == Travel(start, end)
           x      == Pulses(e, travel) * UnitsPerPulse - e.accumulator
<1>1. Rate \in Nat /\ UnitsPerPulse \in Nat \ {0}
  BY EncoderAssumption
<1>2. travel \in Nat
  BY TravelType
<1>3. x \in Int
  <2>1. Pulses(e, travel) \in Nat
    <3> HIDE DEF travel
    <3>1. e.accumulator + travel \in Nat
      BY <1>2
    <3> QED BY <1>1, <3>1, DivMod DEF Pulses
  <2> HIDE DEF travel
  <2> QED BY <1>1, <2>1
<1>4. Clamp(x, travel) \in Int /\ Clamp(x, travel) <= travel
  <2> HIDE DEF x, travel
  <2> QED BY <1>2, <1>3 DEF Clamp
<1>5. CASE travel = 0
  BY <1>5 DEF Stamp, NoPulse
<1>6. CASE travel # 0
  <2>1. travel = Rate * (end - start)
    BY <1>6 DEF Travel
  <2>2. start * Rate + Rate * (end - start) = end * Rate
    BY <1>1
  <2>3. start * Rate \in Int
    BY <1>1
  <2>4. Stamp(e, start, travel) = start * Rate + Clamp(x, travel)
    BY <1>6 DEF Stamp
  <2> DEFINE c == Clamp(x, travel)
             s == start * Rate
             r == Rate * (end - start)
  <2>5. c \in Int /\ c <= r /\ s \in Int /\ r \in Int /\ s + r = end * Rate
        /\ Stamp(e, start, travel) = s + c
    BY <1>1, <1>4, <2>1, <2>2, <2>3, <2>4
  <2> HIDE DEF c, s, r, travel
  <2>6. s + c \in Int /\ s + c <= s + r
    BY <2>5
  <2> QED BY <2>5, <2>6 DEF travel
<1> QED BY <1>5, <1>6

LEMMA BeginKeepsAhead == ASSUME FramesInv, TravelInv, AheadInv, BeginCycle PROVE AheadInv'
<1> DEFINE f      == cycle.frame
           travel == Travel(f.previous, f.timestamp)
           stamp  == Stamp(enc, f.previous, travel)
<1>1. cycle.at = "run" /\ cycle'.at = "decide" /\ cycle'.frame = f /\ UNCHANGED <<next, driver>>
  BY DEF BeginCycle, driverVars
<1>2. f.previous \in Int /\ f.timestamp \in Int
  BY <1>1, FrameTimes DEF FramesInv
<1>3. stamp \in Int /\ (stamp = NoPulse \/ stamp <= f.timestamp * Rate)
  BY <1>2, StampInWindow DEF TravelInv
<1>4. enc'.last = stamp \/ enc'.last = enc.last
  BY DEF BeginCycle, EncoderAfter
<1>5. driver = "cli" => enc'.last <= f.timestamp * Rate
  <2> SUFFICES ASSUME driver = "cli" PROVE enc'.last <= f.timestamp * Rate
    OBVIOUS
  <2>1. Timely(f)
    BY <1>1 DEF AheadInv
  <2>2. f.timestamp * Rate \in Nat
    BY <2>1, EncoderAssumption DEF Timely
  <2> HIDE DEF f, stamp
  <2> QED BY <1>3, <1>4, <2>1, <2>2 DEF Timely, NoPulse
<1>6. enc'.last \in Int
  BY <1>3, <1>4 DEF AheadInv
<1>7. driver = "cli" => Timely(f)'
  BY <1>1, <1>5 DEF AheadInv, Timely
<1> QED BY <1>1, <1>6, <1>7 DEF AheadInv

LEMMA NextKeepsAhead == ASSUME FramesInv, AheadInv, NextFrame PROVE AheadInv'
<1>1. cycle.at = "free" /\ next \in Nat /\ UNCHANGED <<enc, driver>> /\ driver = "cli"
  BY DEF NextFrame, Ready, Free, FramesInv, encoderVars
<1>2. CASE \E id \in {next, next + 1} \cap (0..MaxFrames - 1) :
             \E frame \in SeenFrames(id, IF next = 0 THEN 0 ELSE next - 1) :
               cycle' = [at |-> "submit", frame |-> frame] /\ next' = id + 1
  <2> DEFINE previous == IF next = 0 THEN 0 ELSE next - 1
  <2>1. PICK id \in {next, next + 1} \cap (0..MaxFrames - 1) :
          \E frame \in SeenFrames(id, previous) :
            cycle' = [at |-> "submit", frame |-> frame] /\ next' = id + 1
    BY <1>2
  <2>2. PICK frame \in SeenFrames(id, previous) :
          cycle' = [at |-> "submit", frame |-> frame] /\ next' = id + 1
    BY <2>1
  <2>3. frame.timestamp = id /\ frame.previous = previous
    BY DEF SeenFrames
  <2>4. id \in Nat /\ next <= id /\ previous \in Nat /\ previous <= id /\ id < next'
    BY <1>1, <2>2
  <2>5. enc.last <= next * Rate /\ enc.last \in Int
    BY <1>1 DEF AheadInv
  <2>6. next * Rate \in Int /\ id * Rate \in Int /\ next * Rate <= id * Rate
    BY <1>1, <2>4, Scaled
  <2>7. enc.last <= id * Rate
    <3> DEFINE n == next * Rate
               i == id * Rate
    <3>1. n \in Int /\ i \in Int /\ n <= i /\ enc.last <= n /\ enc.last \in Int
      BY <2>5, <2>6
    <3> HIDE DEF n, i
    <3>2. enc.last <= i
      BY <3>1
    <3> QED BY <3>2 DEF i
  <2> HIDE DEF previous
  <2>8. Timely(frame)'
    BY <1>1, <2>3, <2>4, <2>7 DEF Timely
  <2>9. cycle'.at = "submit" /\ cycle'.frame = frame
    BY <2>2
  <2> QED BY <1>1, <2>5, <2>8, <2>9 DEF AheadInv
<1>3. CASE cycle' = Free /\ next' = next
  BY <1>1, <1>3 DEF AheadInv, Free
<1> QED BY <1>2, <1>3 DEF NextFrame, Raise

\* A cycle that is over leaves the encoder behind every frame to come.
LEMMA OverKeepsAhead ==
  ASSUME FramesInv, AheadInv, UNCHANGED <<enc, driver, next>>, cycle'.at = "free",
         cycle.at \in {"free", "submit", "run", "decide", "send"}
  PROVE  AheadInv'
<1>1. next \in Nat
  BY DEF FramesInv
<1>2. ASSUME Timely(cycle.frame) PROVE enc.last <= next * Rate
  <2> DEFINE t == cycle.frame.timestamp
  <2>1. t \in Int /\ t <= next /\ enc.last <= t * Rate
    BY <1>1, <1>2 DEF Timely
  <2>2. t * Rate \in Int /\ next * Rate \in Int /\ t * Rate <= next * Rate
    BY <1>1, <2>1, Scaled
  <2> DEFINE n == next * Rate
             i == t * Rate
  <2>3. n \in Int /\ i \in Int /\ i <= n /\ enc.last <= i /\ enc.last \in Int
    BY <2>1, <2>2 DEF AheadInv
  <2> HIDE DEF n, i
  <2>4. enc.last <= n
    BY <2>3
  <2> QED BY <2>4 DEF n
<1> QED BY <1>2 DEF AheadInv

LEMMA AheadStep == SendingInv /\ StageInv /\ FramesInv /\ TravelInv /\ AheadInv /\ [Next]_vars => AheadInv'
<1> SUFFICES ASSUME SendingInv, StageInv, FramesInv, TravelInv, AheadInv, [Next]_vars PROVE AheadInv'
  OBVIOUS
<1>1. CASE NextFrame
  BY <1>1, NextKeepsAhead
<1>2. CASE BeginCycle
  BY <1>2, BeginKeepsAhead
<1>3. CASE Call
  BY <1>3 DEF Call, AheadInv, encoderVars
<1>4. CASE SubmitFrame
  <2>1. UNCHANGED <<enc, driver, next>> /\ cycle.at = "submit"
    BY <1>4 DEF SubmitFrame, encoderVars, driverVars
  <2>2. CASE Submit(cycle.frame) /\ cycle' = [at |-> "queued"]
    <3>1. queue'[1] = cycle.frame
      BY <2>1, <2>2, SubmitIntoEmpty
    <3> QED BY <2>1, <2>2, <3>1 DEF AheadInv, Timely
  <2>3. CASE Refuse(cycle.frame) /\ Raise
    BY <2>1, <2>3, OverKeepsAhead DEF Raise, Free
  <2> QED BY <1>4, <2>2, <2>3 DEF SubmitFrame
<1>5. CASE TakeFrame
  <2>1. UNCHANGED <<enc, driver, next>> /\ cycle.at = "queued" /\ cycle' = [at |-> "run", frame |-> Head(queue)]
    BY <1>5 DEF TakeFrame, encoderVars, driverVars
  <2>2. Head(queue) = queue[1]
    OBVIOUS
  <2> QED BY <2>1, <2>2 DEF AheadInv, Timely
<1>6. CASE Decide
  <2>1. UNCHANGED <<enc, driver, next>> /\ cycle.at = "decide"
    BY <1>6 DEF Decide, encoderVars, driverVars, StageInv, BeforeBuilt
  <2>2. CASE cycle'.at = "free"
    BY <2>1, <2>2, OverKeepsAhead
  <2>3. CASE cycle'.at = "send" /\ cycle'.frame = cycle.frame
    BY <2>1, <2>3 DEF AheadInv, Timely
  <2> QED BY <1>6, <2>2, <2>3 DEF Decide, Raise, Free
<1>7. CASE HandleDetection
  <2>1. UNCHANGED <<enc, driver, next>> /\ cycle.at = "send"
    BY <1>7 DEF HandleDetection, encoderVars, driverVars
  <2>2. cycle' = [cycle EXCEPT !.i = @ + 1] \/ cycle' = Free
    BY <1>7 DEF HandleDetection, Send, Raise
  <2>3. CASE cycle' = Free
    BY <2>1, <2>3, OverKeepsAhead DEF Free
  <2>4. CASE cycle' = [cycle EXCEPT !.i = @ + 1]
    <3>1. cycle'.at = "send" /\ cycle'.frame = cycle.frame
      BY <2>1, <2>4 DEF SendingInv
    <3> QED BY <2>1, <3>1 DEF AheadInv, Timely
  <2> QED BY <2>2, <2>3, <2>4
<1>8. CASE EndCycle
  BY <1>8, OverKeepsAhead DEF EndCycle, Free, encoderVars, driverVars
<1>9. CASE ReloadRaised
  <2>1. UNCHANGED <<enc, driver, next>> /\ at = "raised"
    BY <1>9 DEF ReloadRaised, encoderVars, driverVars
  <2>2. CASE built
    BY <1>9, <2>1, <2>2, OverKeepsAhead DEF ReloadRaised, Raise, Free, StageInv
  <2>3. CASE ~built
    <3>1. cycle' = cycle /\ cycle.at = "free"
      BY <1>9, <2>1, <2>3 DEF ReloadRaised, StageInv
    <3> QED BY <2>1, <3>1 DEF AheadInv
  <2> QED BY <2>2, <2>3
<1>10. CASE Edit \/ Reload \/ Configure \/ OpenSource \/ Evaluate \/ WriteArtifacts \/ UNCHANGED vars
  <2>1. UNCHANGED <<enc, driver, next, cycle, queue>>
    BY <1>10 DEF Edit, Reload, Configure, OpenSource, Evaluate, WriteArtifacts, rest, vars, ingestVars,
                 encoderVars, driverVars
  <2> QED BY <2>1 DEF AheadInv, Timely
<1>11. CASE RunAgain
  <2>1. UNCHANGED <<enc, driver, next>>
    BY <1>11 DEF RunAgain, encoderVars, driverVars
  <2> QED BY <1>11, <2>1, Again DEF AheadInv, Timely
<1> QED BY <1>1, <1>2, <1>3, <1>4, <1>5, <1>6, <1>7, <1>8, <1>9, <1>10, <1>11 DEF Next

\* On the command line a trigger is projected from the past of its frame,
\* also when the pulse it starts from was emitted in an earlier window: the
\* clamp of pulses_between keeps a pulse inside its window, and the windows
\* follow each other as the source hands out its frames.
THEOREM TriggersStayBehind == Spec => []TriggerIsNotAhead
<1>1. AheadInv => TriggerIsNotAhead
  <2> SUFFICES ASSUME AheadInv, cycle.at \in {"decide", "send"}, driver = "cli"
               PROVE  TriggerGeneration(enc, cycle.frame.previous) <= cycle.frame.timestamp * Rate
    BY DEF TriggerIsNotAhead
  <2> DEFINE f == cycle.frame
  <2>1. Timely(f)
    BY DEF AheadInv
  <2>2. f.previous * Rate <= f.timestamp * Rate
    BY <2>1, Scaled DEF Timely
  <2> QED BY <2>1, <2>2 DEF TriggerGeneration, Timely
<1>2. Init => TravelInv
  BY DEF Init, NewEncoder, TravelInv, PulsesAreConserved
<1> QED BY <1>1, <1>2, SendingInitially, SendingStep, StageInitially, StageStep, FramesInitially, FramesStep,
           TravelStep, AheadInitially, AheadStep, PTL DEF Spec

-----------------------------------------------------------------------------
(* A passing exit code.                                                    *)

\* The frames of the command line come with rising ids and the objects of a
\* frame differ, so that each detection still to be handled has a new key.
KeysInv ==
  driver = "cli" =>
    /\ fallback = "SAFE"
    /\ \A k \in issued : k[1] \in Int /\ k[1] < next
    /\ cycle.at \in {"submit", "run", "decide"} => \A k \in issued : k[1] < cycle.frame.id
    /\ cycle.at = "queued" => \A k \in issued : k[1] < queue[1].id
    /\ cycle.at = "send" =>
         \A j \in cycle.i..Len(cycle.frame.detections) : KeyOf(cycle.frame.detections[j]) \notin issued

\* The rejects the cycle has still to handle, and what is owed without them.
Pending == IF cycle.at = "send" THEN RejectsFrom(cycle.i) ELSE {}
Settled == owed \ Pending

\* As long as no window was missed the entries count the commands, and the
\* ones without acknowledgment are at least the objects that stay owed.
CountInv ==
  driver = "cli" /\ status # "raised" =>
    /\ logs.expected \in Nat /\ logs.successful \in Nat
    /\ ~logs.missed =>
         /\ IsFiniteSet(issued) /\ Cardinality(issued) = logs.expected
         /\ IsFiniteSet(Settled) /\ Cardinality(Settled) <= logs.expected - logs.successful

PassInv ==
  status \in {"passing", "passed"} =>
    cycle.at = "free" /\ at = "idle" /\ driver = "cli" /\ Reliable /\ ~logs.missed

\* What the other invariants say of a frame of the command line.
LEMMA FrameInHand ==
  ASSUME FramesInv, AheadInv, driver = "cli", cycle.at \in {"submit", "run", "decide", "send"}
  PROVE  /\ cycle.frame.id \in Int /\ cycle.frame.id < next /\ next \in Nat
         /\ cycle.frame.detections \in Scenes
<1>1. PICK id \in Int, previous \in Int : cycle.frame \in SeenFrames(id, previous)
  BY DEF FramesInv, AllFrames
<1>2. cycle.frame.id = id /\ cycle.frame.timestamp = id /\ cycle.frame.detections \in Scenes
  BY <1>1 DEF SeenFrames
<1>3. cycle.frame.timestamp < next
  BY DEF AheadInv, Timely
<1> QED BY <1>2, <1>3 DEF FramesInv

LEMMA KeysInitially == Init => KeysInv
BY DEF Init, Free, KeysInv

\* The first of the detections to be handled gets its key, the ones behind it
\* keep theirs free.
LEMMA HandleKeepsKeys ==
  ASSUME SendingInv, FramesInv, AheadInv, KeysInv, HandleDetection, driver = "cli"
  PROVE  KeysInv'
<1> DEFINE seenNow == cycle.frame.detections
           d       == seenNow[cycle.i]
<1>1. /\ cycle.at = "send" /\ cycle.i \in Nat \ {0} /\ cycle.i <= Len(seenNow)
      /\ UNCHANGED <<driver, fallback, next>>
      /\ issued' = IF Command(d) THEN issued \cup {KeyOf(d)} ELSE issued
  BY DEF HandleDetection, driverVars, SendingInv
<1>2. /\ cycle.frame.id \in Int /\ cycle.frame.id < next /\ next \in Nat /\ seenNow \in Scenes
  BY <1>1, FrameInHand
<1>3. KeyOf(d)[1] = cycle.frame.id
  BY DEF KeyOf
<1>4. \A k \in issued' : k[1] \in Int /\ k[1] < next
  BY <1>1, <1>2, <1>3 DEF KeysInv
<1>5. CASE cycle' = Free
  BY <1>1, <1>4, <1>5 DEF KeysInv, Free
<1>6. CASE cycle' = [cycle EXCEPT !.i = @ + 1]
  <2>1. cycle'.at = "send" /\ cycle'.i = cycle.i + 1 /\ cycle'.frame = cycle.frame
    BY <1>1, <1>6, NextDetection
  <2>2. ASSUME NEW j \in cycle.i + 1..Len(seenNow) PROVE KeyOf(seenNow[j]) \notin issued'
    <3>1. Len(seenNow) \in Nat /\ j \in cycle.i..Len(seenNow) /\ j # cycle.i
      BY <1>1, <1>2, BenchAssumption
    <3>2. KeyOf(seenNow[j]) \notin issued
      BY <1>1, <3>1 DEF KeysInv
    <3>3. cycle.i \in 1..Len(seenNow) /\ j \in 1..Len(seenNow)
      BY <1>1, <3>1
    <3>4. seenNow[j].object # d.object
      BY <1>2, <3>1, <3>3, BenchAssumption
    <3>5. KeyOf(seenNow[j]) # KeyOf(d)
      BY <3>4 DEF KeyOf
    <3> QED BY <1>1, <3>2, <3>5
  <2>3. \A j \in cycle'.i..Len(cycle'.frame.detections) : KeyOf(cycle.frame.detections[j])' \notin issued'
    BY <2>1, <2>2 DEF KeyOf
  <2> QED BY <1>1, <1>4, <2>1, <2>3 DEF KeysInv
<1> QED BY <1>5, <1>6 DEF HandleDetection, Send, Raise

LEMMA DriverStays == [Next]_vars => driver' = driver
<1>1. CASE Edit \/ Reload \/ ReloadRaised \/ RunAgain
  BY <1>1 DEF Edit, Reload, ReloadRaised, RunAgain, driverVars
<1>2. CASE NextFrame \/ Call \/ SubmitFrame \/ TakeFrame \/ BeginCycle
  BY <1>2 DEF NextFrame, Call, SubmitFrame, TakeFrame, BeginCycle, driverVars
<1>3. CASE Decide \/ HandleDetection \/ EndCycle
  BY <1>3 DEF Decide, HandleDetection, EndCycle, driverVars
<1>4. CASE Configure \/ OpenSource \/ Evaluate \/ WriteArtifacts \/ UNCHANGED vars
  BY <1>4 DEF Configure, OpenSource, Evaluate, WriteArtifacts, rest, vars, driverVars
<1> QED BY <1>1, <1>2, <1>3, <1>4 DEF Next

LEMMA KeysStep ==
  SendingInv /\ StageInv /\ FramesInv /\ AheadInv /\ KeysInv /\ [Next]_vars => KeysInv'
<1> SUFFICES ASSUME SendingInv, StageInv, FramesInv, AheadInv, KeysInv, [Next]_vars, driver = "cli"
             PROVE  KeysInv'
  <2> QED BY DriverStays DEF KeysInv
<1>1. CASE HandleDetection
  BY <1>1, HandleKeepsKeys
<1>2. CASE NextFrame
  <2>1. cycle.at = "free" /\ next \in Nat /\ UNCHANGED <<driver, fallback, issued>>
    BY <1>2 DEF NextFrame, Ready, Free, FramesInv, wireVars
  <2>2. CASE cycle' = Free /\ next' = next
    BY <2>1, <2>2 DEF KeysInv, Free
  <2>3. CASE \E id \in {next, next + 1} \cap (0..MaxFrames - 1) :
               \E frame \in SeenFrames(id, IF next = 0 THEN 0 ELSE next - 1) :
                 cycle' = [at |-> "submit", frame |-> frame] /\ next' = id + 1
    <3> DEFINE previous == IF next = 0 THEN 0 ELSE next - 1
    <3>1. PICK id \in {next, next + 1} \cap (0..MaxFrames - 1) :
            \E frame \in SeenFrames(id, previous) :
              cycle' = [at |-> "submit", frame |-> frame] /\ next' = id + 1
      BY <2>3
    <3>2. PICK frame \in SeenFrames(id, previous) :
            cycle' = [at |-> "submit", frame |-> frame] /\ next' = id + 1
      BY <3>1
    <3>3. frame.id = id
      BY <3>2 DEF SeenFrames
    <3>4. cycle'.at = "submit" /\ cycle'.frame.id = id /\ next' = id + 1 /\ id \in Int /\ next <= id
      BY <2>1, <3>2, <3>3
    <3> QED BY <2>1, <3>4 DEF KeysInv
  <2> QED BY <1>2, <2>2, <2>3 DEF NextFrame, Raise
<1>3. CASE Call
  BY <1>3 DEF Call
<1>4. CASE SubmitFrame
  <2>1. UNCHANGED <<driver, fallback, next, issued>> /\ cycle.at = "submit"
    BY <1>4 DEF SubmitFrame, driverVars, wireVars
  <2>2. CASE Submit(cycle.frame) /\ cycle' = [at |-> "queued"]
    <3>1. queue'[1] = cycle.frame
      BY <2>1, <2>2, SubmitIntoEmpty
    <3> QED BY <2>1, <2>2, <3>1 DEF KeysInv
  <2>3. CASE cycle' = Free
    BY <2>1, <2>3 DEF Free, KeysInv
  <2> QED BY <1>4, <2>2, <2>3 DEF SubmitFrame, Raise
<1>5. CASE TakeFrame
  <2>1. UNCHANGED <<driver, fallback, next, issued>> /\ cycle.at = "queued"
        /\ cycle' = [at |-> "run", frame |-> Head(queue)]
    BY <1>5 DEF TakeFrame, driverVars, wireVars
  <2>2. Head(queue) = queue[1]
    OBVIOUS
  <2> QED BY <2>1, <2>2 DEF KeysInv
<1>6. CASE BeginCycle
  BY <1>6 DEF BeginCycle, driverVars, wireVars, KeysInv
<1>7. CASE Decide
  <2>1. cycle.at = "decide" /\ UNCHANGED <<driver, fallback, next, issued>>
    BY <1>7 DEF Decide, StageInv, BeforeBuilt, driverVars, wireVars
  <2>2. CASE cycle' = Free
    BY <2>1, <2>2 DEF Free, KeysInv
  <2>3. CASE cycle' # Free
    <3>1. cycle'.at = "send" /\ cycle'.frame = cycle.frame
      BY <1>7, <2>3 DEF Decide, Raise
    <3>2. cycle.frame.id \in Int /\ \A k \in issued : k[1] \in Int /\ k[1] < cycle.frame.id
      BY <2>1, FrameInHand DEF KeysInv
    <3>3. \A k \in issued : k[1] # cycle.frame.id
      BY <3>2
    <3>4. \A d : KeyOf(d)' = <<cycle.frame.id, d.object>>
      BY <3>1 DEF KeyOf
    <3>5. \A d : KeyOf(d)' \notin issued'
      BY <2>1, <3>3, <3>4
    <3>6. \A j \in cycle'.i..Len(cycle'.frame.detections) :
            KeyOf(cycle.frame.detections[j])' \notin issued'
      BY <3>5
    <3> QED BY <2>1, <3>1, <3>6 DEF KeysInv
  <2> QED BY <2>2, <2>3
<1>8. CASE EndCycle \/ ReloadRaised
  <2>1. UNCHANGED <<driver, fallback, next, issued>> /\ (cycle' = Free \/ (cycle' = cycle /\ cycle.at = "free"))
    BY <1>8 DEF EndCycle, ReloadRaised, Raise, StageInv, driverVars, wireVars
  <2> QED BY <2>1 DEF Free, KeysInv
<1>9. CASE RunAgain
  <2>1. UNCHANGED <<driver, fallback, next, issued>>
    BY <1>9 DEF RunAgain, driverVars, wireVars
  <2> QED BY <1>9, <2>1, Again DEF KeysInv
<1>10. CASE Edit \/ Reload \/ Configure \/ OpenSource \/ Evaluate \/ WriteArtifacts \/ UNCHANGED vars
  <2>1. UNCHANGED <<driver, fallback, next, issued, cycle, queue>>
    BY <1>10 DEF Edit, Reload, Configure, OpenSource, Evaluate, WriteArtifacts, rest, vars, ingestVars,
                 driverVars, wireVars
  <2> QED BY <2>1 DEF KeysInv, KeyOf
<1> QED BY <1>1, <1>2, <1>3, <1>4, <1>5, <1>6, <1>7, <1>8, <1>9, <1>10 DEF Next

\* The decisions of a frame do not change while its detections are handled.
LEMMA DecisionsStay ==
  ASSUME UNCHANGED calibration, cycle'.frame = cycle.frame, cycle'.again = cycle.again
  PROVE  \A d : (Command(d)' <=> Command(d)) /\ KeyOf(d)' = KeyOf(d)
<1>1. FrameGiven' = FrameGiven /\ ThresholdGiven' = ThresholdGiven
  BY DEF FrameGiven, ThresholdGiven
<1>2. \A d : KeyOf(d)' = KeyOf(d)
  BY DEF KeyOf
<1> QED BY <1>1, <1>2 DEF Command, HasCommand, Decision, ContextFault, Misaligned, Rejects

\* What is left of the rejects when one more detection has been handled.
LEMMA NextReject ==
  ASSUME SendingInv, cycle.at = "send", UNCHANGED calibration, cycle' = [cycle EXCEPT !.i = @ + 1]
  PROVE  \A k \in Pending :
           \/ k \in Pending'
           \/ /\ Command(cycle.frame.detections[cycle.i])
              /\ k = KeyOf(cycle.frame.detections[cycle.i])
<1> DEFINE seenNow == cycle.frame.detections
<1>1. /\ cycle'.at = "send" /\ cycle'.i = cycle.i + 1 /\ cycle'.frame = cycle.frame
      /\ cycle'.again = cycle.again
  BY NextDetection
<1>2. ASSUME NEW k \in Pending, ~(Command(seenNow[cycle.i]) /\ k = KeyOf(seenNow[cycle.i]))
      PROVE  k \in Pending'
  <2>1. PICK j \in cycle.i..Len(seenNow) : Command(seenNow[j]) /\ k = KeyOf(seenNow[j])
    BY DEF Pending, RejectsFrom
  <2>2. j # cycle.i
    BY <1>2, <2>1
  <2>3. j \in cycle.i + 1..Len(seenNow)
    BY <2>1, <2>2 DEF SendingInv
  <2>4. Command(seenNow[j])' /\ k = KeyOf(seenNow[j])'
    BY <1>1, <2>1, DecisionsStay
  <2>5. k \in RejectsFrom(cycle.i)'
    BY <1>1, <2>3, <2>4 DEF RejectsFrom
  <2> QED BY <1>1, <2>5 DEF Pending
<1> QED BY <1>2

LEMMA CountInitially == Init => CountInv
<1> SUFFICES ASSUME Init PROVE CountInv
  OBVIOUS
<1>1. issued = {} /\ Settled = {} /\ logs.expected = 0 /\ logs.successful = 0
  BY DEF Init, Settled, NoLogs
<1> QED BY <1>1, FS_EmptySet DEF CountInv

\* A step that neither counts nor settles anything more.
LEMMA NothingCounted ==
  ASSUME CountInv, UNCHANGED <<driver, logs, issued>>, status' # "raised" => status # "raised",
         status' # "raised" => Settled' \subseteq Settled
  PROVE  CountInv'
<1> SUFFICES ASSUME driver = "cli", status' # "raised" PROVE CountInv'
  BY DEF CountInv
<1>1. ASSUME ~logs.missed
      PROVE  IsFiniteSet(Settled') /\ Cardinality(Settled') <= logs.expected - logs.successful
  <2>1. IsFiniteSet(Settled) /\ Cardinality(Settled) <= logs.expected - logs.successful
        /\ logs.expected \in Nat /\ logs.successful \in Nat
    BY <1>1 DEF CountInv
  <2>2. /\ IsFiniteSet(Settled') /\ Cardinality(Settled') <= Cardinality(Settled)
        /\ Cardinality(Settled) \in Nat /\ Cardinality(Settled') \in Nat
    BY <2>1, FS_Subset, FS_CardinalityType
  <2> QED BY <2>1, <2>2
<1> QED BY <1>1 DEF CountInv

\* A detection that was handled: a command gets a new key and an entry that
\* expects it, and without acknowledgment it may stay owed.
LEMMA OneCounted ==
  ASSUME CountInv, UNCHANGED driver, NEW key, NEW command \in BOOLEAN, NEW acked \in BOOLEAN,
         driver = "cli" => key \notin issued,
         issued' = IF command THEN issued \cup {key} ELSE issued,
         status' = status, driver = "cli" /\ ~logs'.missed => ~logs.missed,
         driver = "cli" => logs'.expected \in Nat /\ logs'.successful \in Nat,
         driver = "cli" /\ ~logs'.missed =>
           /\ logs'.expected = logs.expected + (IF command THEN 1 ELSE 0)
           /\ logs'.successful = logs.successful + (IF command /\ acked THEN 1 ELSE 0),
         Settled' \subseteq (IF command /\ ~acked THEN Settled \cup {key} ELSE Settled)
  PROVE  CountInv'
<1> SUFFICES ASSUME driver = "cli", status # "raised", ~logs'.missed
             PROVE  /\ IsFiniteSet(issued') /\ Cardinality(issued') = logs'.expected
                    /\ IsFiniteSet(Settled') /\ Cardinality(Settled') <= logs'.expected - logs'.successful
  BY DEF CountInv
<1>1. /\ logs.expected \in Nat /\ logs.successful \in Nat
      /\ IsFiniteSet(issued) /\ Cardinality(issued) = logs.expected
      /\ IsFiniteSet(Settled) /\ Cardinality(Settled) <= logs.expected - logs.successful
  BY DEF CountInv
<1>2. IsFiniteSet(issued') /\ Cardinality(issued') = logs'.expected
  <2>1. CASE command
    BY <1>1, <2>1, FS_AddElement
  <2>2. CASE ~command
    BY <1>1, <2>2
  <2> QED BY <2>1, <2>2
<1> DEFINE bound == IF command /\ ~acked THEN Settled \cup {key} ELSE Settled
<1>3. Cardinality(Settled) \in Nat
  BY <1>1, FS_CardinalityType
<1>4. /\ IsFiniteSet(bound)
      /\ Cardinality(bound) <= Cardinality(Settled) + (IF command /\ ~acked THEN 1 ELSE 0)
  <2>1. /\ IsFiniteSet(Settled \cup {key})
        /\ Cardinality(Settled \cup {key}) = IF key \in Settled THEN Cardinality(Settled)
                                             ELSE Cardinality(Settled) + 1
    BY <1>1, FS_AddElement
  <2> QED BY <1>1, <1>3, <2>1
<1>5. /\ IsFiniteSet(Settled') /\ Cardinality(Settled') <= Cardinality(bound)
      /\ Cardinality(bound) \in Nat /\ Cardinality(Settled') \in Nat
  <2>1. Settled' \in SUBSET bound
    OBVIOUS
  <2> HIDE DEF bound
  <2> QED BY <1>4, <2>1, FS_Subset, FS_CardinalityType
<1>6. Cardinality(Settled') <= logs'.expected - logs'.successful
  <2> DEFINE before == Cardinality(Settled)  after == Cardinality(Settled')  most == Cardinality(bound)
  <2>1. /\ before \in Nat /\ after \in Nat /\ most \in Nat /\ after <= most
        /\ most <= before + (IF command /\ ~acked THEN 1 ELSE 0)
        /\ before <= logs.expected - logs.successful
    BY <1>1, <1>3, <1>4, <1>5
  <2> HIDE DEF before, after, most, bound
  <2>2. after <= logs'.expected - logs'.successful
    BY <1>1, <2>1
  <2> QED BY <2>2 DEF after
<1> QED BY <1>2, <1>5, <1>6

\* A command that goes out without a missed window is acknowledged in time, or
\* its entry expects it and does not count it.
LEMMA HandleKeepsCount ==
  ASSUME SendingInv, KeysInv, CountInv, HandleDetection
  PROVE  CountInv'
<1> DEFINE seenNow == cycle.frame.detections
           d       == seenNow[cycle.i]
<1>1. /\ cycle.at = "send" /\ cycle.i \in Nat \ {0} /\ cycle.i <= Len(seenNow)
      /\ UNCHANGED <<driver, calibration>>
      /\ issued' = IF Command(d) THEN issued \cup {KeyOf(d)} ELSE issued
  BY DEF HandleDetection, driverVars, pipelineVars, SendingInv
<1>2. Command(d) \in BOOLEAN
  BY DEF Command, HasCommand
<1>3. driver = "cli" => KeyOf(d) \notin issued
  BY <1>1 DEF KeysInv
<1>4. ASSUME Raise PROVE CountInv'
  BY <1>1, <1>4 DEF Raise, CountInv
<1>5. ASSUME cycle' = [cycle EXCEPT !.i = @ + 1], status' = status, NEW sent \in BOOLEAN,
             NEW acked \in BOOLEAN, NEW code, Log(d, sent, acked, code), acked => sent,
             owed' \subseteq owed, Command(d) /\ acked => KeyOf(d) \notin owed'
      PROVE  CountInv'
  <2>1. Settled' \subseteq (IF Command(d) /\ ~acked THEN Settled \cup {KeyOf(d)} ELSE Settled)
    BY <1>1, <1>5, NextReject DEF Settled
  <2>2. driver = "cli" /\ status # "raised" =>
          /\ logs.expected \in Nat /\ logs.successful \in Nat
          /\ logs'.expected \in Nat /\ logs'.successful \in Nat
    BY <1>5 DEF CountInv, Log
  <2>3. driver = "cli" /\ ~logs'.missed =>
          /\ ~logs.missed
          /\ logs'.expected = logs.expected + (IF Command(d) THEN 1 ELSE 0)
          /\ logs'.successful = logs.successful + (IF Command(d) /\ acked THEN 1 ELSE 0)
    BY <1>5 DEF Log, Expected
  <2>4. CASE status = "raised"
    BY <1>1, <1>5, <2>4 DEF CountInv
  <2>5. CASE status # "raised"
    BY <1>1, <1>2, <1>3, <1>5, <2>1, <2>2, <2>3, <2>5, OneCounted
  <2> QED BY <2>4, <2>5
<1>6. CASE ToBeSent(d) /\ ~FallbackOutOfRange(d)
  <2>1. Send(d)
    BY <1>6 DEF HandleDetection
  <2>2. ASSUME NEW code \in {"ACK", "NACK_SAFE", "NACK"}, NEW overBudget \in BOOLEAN,
               owed' = IF code = "ACK" THEN owed \ {KeyOf(d)} ELSE owed,
               Log(d, TRUE, IsAcknowledged(code, overBudget), IF overBudget THEN "NACK_SAFE" ELSE code),
               cycle' = [cycle EXCEPT !.i = @ + 1], status' = status
        PROVE  CountInv'
    <3>1. IsAcknowledged(code, overBudget) \in BOOLEAN /\ (IsAcknowledged(code, overBudget) => code = "ACK")
      BY DEF IsAcknowledged
    <3> DEFINE acked == IsAcknowledged(code, overBudget)
    <3>2. acked \in BOOLEAN /\ (acked => KeyOf(d) \notin owed') /\ owed' \subseteq owed
      BY <2>2, <3>1
    <3> HIDE DEF acked
    <3>3. Log(d, TRUE, acked, IF overBudget THEN "NACK_SAFE" ELSE code)
      BY <2>2 DEF acked
    <3> QED BY <1>5, <2>2, <3>2, <3>3
  <2> QED BY <1>4, <2>1, <2>2 DEF Send
<1>7. CASE ToBeSent(d) /\ FallbackOutOfRange(d)
  BY <1>4, <1>7 DEF HandleDetection
<1>8. CASE ~ToBeSent(d)
  <2>1. /\ Log(d, FALSE, FALSE, IF Faulty(d) THEN "NACK_SAFE" ELSE "ACK")
        /\ cycle' = [cycle EXCEPT !.i = @ + 1]
        /\ UNCHANGED <<owed, status>>
    BY <1>8 DEF HandleDetection
  <2> QED BY <1>5, <2>1
<1> QED BY <1>6, <1>7, <1>8

LEMMA CountStep == SendingInv /\ StageInv /\ KeysInv /\ CountInv /\ [Next]_vars => CountInv'
<1> SUFFICES ASSUME SendingInv, StageInv, KeysInv, CountInv, [Next]_vars PROVE CountInv'
  OBVIOUS
<1>1. CASE HandleDetection
  BY <1>1, HandleKeepsCount
<1>2. CASE Decide
  <2>1. cycle.at = "decide" /\ UNCHANGED <<driver, logs, issued, calibration>>
    BY <1>2 DEF Decide, StageInv, BeforeBuilt, driverVars, wireVars
  <2>2. Settled = owed
    BY <2>1 DEF Settled, Pending
  <2>3. CASE CommandOutOfRange(FrameGiven, ThresholdGiven)
    <3>1. UNCHANGED owed /\ Raise
      BY <1>2, <2>3 DEF Decide
    <3>2. Settled' \subseteq Settled
      BY <2>2, <3>1 DEF Settled
    <3> QED BY <2>1, <3>1, <3>2, NothingCounted DEF Raise
  <2>4. CASE ~CommandOutOfRange(FrameGiven, ThresholdGiven)
    <3>1. /\ cycle'.at = "send" /\ cycle'.i = 1 /\ cycle'.frame = cycle.frame /\ cycle'.again = cycle.again
          /\ owed' = owed \cup RejectsFrom(1) /\ status' = status
      BY <1>2, <2>4 DEF Decide
    <3>2. Pending' = RejectsFrom(1)
      BY <2>1, <3>1, DecisionsStay DEF Pending, RejectsFrom
    <3>3. Settled' \subseteq Settled
      BY <2>2, <3>1, <3>2 DEF Settled
    <3> QED BY <2>1, <3>1, <3>3, NothingCounted
  <2> QED BY <2>3, <2>4
<1>3. CASE EndCycle
  <2>1. Pending = {}
    BY <1>3 DEF EndCycle, SendingInv, Pending, RejectsFrom
  <2>2. UNCHANGED <<driver, logs, issued, owed, status>>
    BY <1>3 DEF EndCycle, driverVars, wireVars
  <2>3. Settled' \subseteq Settled
    BY <2>1, <2>2 DEF Settled
  <2> QED BY <2>2, <2>3, NothingCounted
<1>4. CASE \/ ReloadRaised \/ RunAgain \/ NextFrame \/ Call \/ SubmitFrame \/ TakeFrame \/ BeginCycle
  <2>1. UNCHANGED <<driver, logs, issued, owed>> /\ cycle.at # "send"
    BY <1>4 DEF ReloadRaised, RunAgain, NextFrame, Call, SubmitFrame, TakeFrame, BeginCycle, Ready, Free,
                SendingInv, driverVars, wireVars
  <2>2. status' # "raised" => status # "raised"
    BY <1>4 DEF ReloadRaised, RunAgain, NextFrame, Call, SubmitFrame, TakeFrame, BeginCycle, Ready, Raise
  <2>3. Settled' \subseteq Settled
    BY <2>1 DEF Settled, Pending
  <2> QED BY <2>1, <2>2, <2>3, NothingCounted
<1>5. CASE \/ Edit \/ Reload \/ Configure \/ OpenSource \/ Evaluate \/ WriteArtifacts \/ UNCHANGED vars
  <2>1. UNCHANGED <<driver, logs, issued, owed, cycle>>
    BY <1>5 DEF Edit, Reload, Configure, OpenSource, Evaluate, WriteArtifacts, rest, vars, driverVars, wireVars
  <2>2. status' # "raised" => status # "raised"
    <3>1. CASE Edit \/ Reload \/ UNCHANGED vars
      BY <3>1 DEF Edit, Reload, vars
    <3>2. CASE Configure \/ OpenSource \/ Evaluate \/ WriteArtifacts
      BY <3>2 DEF Configure, OpenSource, Evaluate, WriteArtifacts, Ready
    <3> QED BY <1>5, <3>1, <3>2
  <2>3. cycle.at = "send" => UNCHANGED calibration
    BY <1>5, StepsBeforeDecisions DEF Edit, EditFiles, EditGeometry, EditCalibration, Reload, Configure,
       OpenSource, Evaluate, WriteArtifacts, rest, vars, pipelineVars, SendingInv
  <2>4. Pending' = Pending
    BY <2>1, <2>3, DecisionsStay DEF Pending, RejectsFrom
  <2> QED BY <2>1, <2>2, <2>4, NothingCounted DEF Settled
<1> QED BY <1>1, <1>2, <1>3, <1>4, <1>5 DEF Next

\* An evaluation passes with no cycle under way; then nothing is left but to
\* write the artifacts.
LEMMA PassStep == StageInv /\ PassInv /\ [Next]_vars => PassInv'
<1> SUFFICES ASSUME StageInv, PassInv, [Next]_vars PROVE PassInv'
  OBVIOUS
<1>1. CASE Evaluate
  <2>1. cycle.at = "free" /\ at = "idle" /\ driver = "cli" /\ UNCHANGED <<cycle, at, driver, logs>>
    BY <1>1 DEF Evaluate, Ready, Free, rest, pipelineVars, driverVars
  <2>2. status' = "passing" => Reliable /\ ~logs.missed
    BY <1>1 DEF Evaluate, Passes
  <2>3. status' \in {"passing", "failing"}
    BY <1>1 DEF Evaluate
  <2> QED BY <2>1, <2>2, <2>3 DEF PassInv, Reliable
<1>2. CASE WriteArtifacts \/ UNCHANGED vars
  BY <1>2 DEF WriteArtifacts, rest, vars, pipelineVars, driverVars, PassInv, Reliable
<1>3. CASE \/ Edit \/ Reload \/ ReloadRaised \/ RunAgain \/ NextFrame \/ Call \/ SubmitFrame \/ TakeFrame
           \/ BeginCycle \/ Decide \/ HandleDetection \/ EndCycle \/ Configure \/ OpenSource
  <2>1. status' \notin {"passing", "passed"}
    BY <1>3 DEF Edit, Reload, ReloadRaised, RunAgain, NextFrame, Call, SubmitFrame, TakeFrame, BeginCycle,
                Decide, HandleDetection, EndCycle, Configure, OpenSource, Ready, Raise, Free, Send,
                PassInv, StageInv
  <2> QED BY <2>1 DEF PassInv
<1> QED BY <1>1, <1>2, <1>3 DEF Next

\* The share of the scenarios, from the entries to the objects.
LEMMA ToleratedShare ==
  ASSUME NEW stay \in Nat, NEW expected \in Nat, NEW successful \in Nat,
         stay <= expected - successful, 100 * successful >= MinReliability * expected
  PROVE  100 * stay <= (100 - MinReliability) * expected
<1> DEFINE least == MinReliability * expected
<1>1. MinReliability \in Nat /\ least \in Nat
  BY BenchAssumption
<1>2. (100 - MinReliability) * expected = 100 * expected - least
  BY <1>1
<1>3. 100 * stay <= 100 * expected - least
  <2> HIDE DEF least
  <2>1. 100 * successful >= least
    BY DEF least
  <2> QED BY <1>1, <2>1
<1> QED BY <1>2, <1>3

\* The command line's exit code 0 is earned: of the objects a command was made
\* for, at most the tolerated share has not got into the queue of the MCU,
\* which summarize and the scenarios can only see in the entries.
THEOREM PassIsEarned == Spec => []PassMeansRejectsAreQueued
<1>1. CountInv /\ PassInv => PassMeansRejectsAreQueued
  <2> SUFFICES ASSUME CountInv, PassInv, status = "passed"
               PROVE  100 * Cardinality(owed) <= (100 - MinReliability) * Cardinality(issued)
    BY DEF PassMeansRejectsAreQueued
  <2>1. cycle.at = "free" /\ driver = "cli" /\ Reliable /\ ~logs.missed
    BY DEF PassInv
  <2>2. Settled = owed
    BY <2>1 DEF Settled, Pending
  <2>3. /\ logs.expected \in Nat /\ logs.successful \in Nat /\ Cardinality(issued) = logs.expected
        /\ IsFiniteSet(owed) /\ Cardinality(owed) <= logs.expected - logs.successful
    BY <2>1, <2>2 DEF CountInv
  <2>4. Cardinality(owed) \in Nat
    BY <2>3, FS_CardinalityType
  <2> QED BY <2>1, <2>3, <2>4, ToleratedShare DEF Reliable
<1>2. Init => TravelInv
  BY DEF Init, NewEncoder, TravelInv, PulsesAreConserved
<1>3. Init => PassInv
  BY DEF Init, PassInv
<1> QED BY <1>1, <1>2, <1>3, SendingInitially, SendingStep, StageInitially, StageStep, FramesInitially,
           FramesStep, TravelStep, AheadInitially, AheadStep, KeysInitially, KeysStep, CountInitially,
           CountStep, PassStep, PTL DEF Spec

=============================================================================
