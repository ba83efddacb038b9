------------------------------ MODULE LinkProofs ------------------------------
(***************************************************************************)
(* Proofs about SerialMcuTransport and the endpoint at the other end of    *)
(* its cable (module SerialLink), for every number of calls, retries,      *)
(* sessions, resets, lost answers and damaged lines, every queue depth and *)
(* every cache size.                                                       *)
(***************************************************************************)
EXTENDS SerialLink, HostProofs

-----------------------------------------------------------------------------
(* The shape of the transport's steps.                                     *)

\* The order in which one call can come to wait for its frames.
Rank(label) ==
  IF label = "idle" THEN 0
  ELSE IF label = "hello" THEN 1
  ELSE IF label = "beat" THEN 2
  ELSE IF label = "hello_after_beat" THEN 3
  ELSE IF label = "state" THEN 4
  ELSE IF label = "hello_after_state" THEN 5
  ELSE IF label = "state_again" THEN 6
  ELSE IF label = "reset" THEN 7
  ELSE IF label = "set_mode" THEN 8
  ELSE 9

\* What the transport writes while it waits under a label, for a call.
Body(label, call, cmd, arg) ==
  \/ label \in {"hello", "hello_after_beat", "hello_after_state"}
     /\ cmd = "HELLO" /\ arg \in OfferedSets
  \/ label = "beat" /\ cmd = "HEARTBEAT" /\ arg = NoArg
  \/ label \in {"state", "state_again"} /\ cmd = "GET_STATE" /\ arg = NoArg
  \/ label = "reset" /\ cmd = "RESET_QUEUE" /\ arg = NoArg
  \/ label = "set_mode" /\ cmd = "SET_MODE" /\ arg \in Modes
  \/ label = "command" /\ cmd = call.cmd /\ arg = call.arg

\* The next frame of a call goes out.
Writes(call) ==
  \E label, cmd, arg :
    /\ label \in Labels /\ Rank(pc) < Rank(label)
    /\ Body(label, call, cmd, arg)
    /\ Send(label, cmd, arg)

Results == {"raised", "ACK", "NACK_QUEUE_FULL", "NACK_BUSY", "NACK_SAFE"}

Finishes == \E result \in Results : Finish(result)

LEMMA ProceedWrites ==
  ASSUME NEW call, NEW due, NEW sync, Rank(pc) <= 1 \/ (Rank(pc) < 4 /\ due = FALSE),
         Proceed(call, due, sync)
  PROVE  Writes(call)
BY DEF Proceed, Writes, Rank, Body, Labels

LEMMA HelloWrites ==
  ASSUME NEW call, NEW label \in {"hello", "hello_after_beat", "hello_after_state"},
         Rank(pc) < Rank(label), SayHello(label)
  PROVE  Writes(call)
<1>1. (CHOOSE caps \in OfferedSets : TRUE) \in OfferedSets
  BY LinkAssumption
<1> DEFINE caps == CHOOSE caps \in OfferedSets : TRUE
<1>2. Body(label, call, "HELLO", caps) /\ label \in Labels
  BY <1>1 DEF Body, Labels
<1>3. Send(label, "HELLO", caps)
  BY DEF SayHello
<1> HIDE DEF caps
<1> QED BY <1>2, <1>3 DEF Writes

\* What the transport does with an answer: it is read, the endpoint and the
\* cable are left alone, and the call goes on with a frame or ends.
LEMMA AnsweredShape ==
  ASSUME expectedMode \in Modes, Answered
  PROVE  /\ pc # "idle" /\ toClient # <<>> /\ answer.status \in {"ACK", "NACK"}
         /\ toClient' = Tail(toClient)
         /\ UNCHANGED <<hostVars, plugged, budgetVars, historyVars>>
         /\ (Writes(ThisCall) /\ calls' = calls) \/ Finishes
<1>1. ASSUME NEW label \in Labels \ {"idle"}, Take(label)
      PROVE  /\ pc = label /\ pc # "idle" /\ toClient # <<>> /\ answer.status \in {"ACK", "NACK"}
             /\ toClient' = Tail(toClient)
             /\ UNCHANGED <<hostVars, plugged, budgetVars, historyVars>>
  BY <1>1 DEF Take
<1>2. ASSUME RaiseSafe PROVE Finishes
  BY <1>2 DEF RaiseSafe, Finishes, Results
<1>3. ASSUME NEW label \in {"hello", "hello_after_beat", "hello_after_state"}, NEW age,
             TakeHello(label, age)
      PROVE  (Writes(ThisCall) /\ calls' = calls) \/ Finishes
  <2>1. pc = label
    BY <1>3 DEF TakeHello, Take
  <2>2. CASE RaiseSafe
    BY <2>2, <1>2
  <2>3. CASE ~RaiseSafe
    <3>1. calls' = calls
      BY <1>3, <2>3 DEF TakeHello
    <3>2. CASE label = "hello"
      <4>1. Proceed(ThisCall, TRUE, TRUE)
        BY <1>3, <2>3, <3>2 DEF TakeHello
      <4>2. Rank(pc) <= 1
        BY <2>1, <3>2 DEF Rank
      <4> QED BY <3>1, <4>1, <4>2, ProceedWrites
    <3>3. CASE label = "hello_after_beat"
      <4>1. Proceed(ThisCall, FALSE, TRUE)
        BY <1>3, <2>3, <3>3 DEF TakeHello
      <4>2. Rank(pc) < 4
        BY <2>1, <3>3 DEF Rank
      <4> QED BY <3>1, <4>1, <4>2, ProceedWrites
    <3>4. CASE label = "hello_after_state"
      <4>1. Send("state_again", "GET_STATE", NoArg)
        BY <1>3, <2>3, <3>4 DEF TakeHello
      <4> QED BY <2>1, <3>1, <3>4, <4>1 DEF Writes, Rank, Body, Labels
    <3> QED BY <3>2, <3>3, <3>4
  <2> QED BY <2>2, <2>3
<1>4. ASSUME TakeBeat PROVE (Writes(ThisCall) /\ calls' = calls) \/ Finishes
  <2>1. pc = "beat" /\ Rank(pc) = 2 /\ calls' = calls
    BY <1>4 DEF TakeBeat, Take, Rank
  <2>2. CASE Proceed(ThisCall, FALSE, syncRequired)
    <3>1. Rank(pc) < 4
      BY <2>1
    <3> QED BY <2>1, <2>2, <3>1, ProceedWrites
  <2>3. CASE SayHello("hello_after_beat")
    <3>1. Rank(pc) < Rank("hello_after_beat")
      BY <2>1 DEF Rank
    <3> QED BY <2>1, <2>3, <3>1, HelloWrites
  <2> QED BY <1>4, <2>2, <2>3 DEF TakeBeat
<1>5. ASSUME NEW label \in {"state", "state_again"}, TakeState(label)
      PROVE  (Writes(ThisCall) /\ calls' = calls) \/ Finishes
  <2>1. pc = label /\ Rank(pc) \in {4, 6}
    BY <1>5 DEF TakeState, Take, Rank
  <2>2. CASE RaiseSafe
    BY <2>2, <1>2
  <2>3. CASE ~RaiseSafe
    <3>1. calls' = calls
      BY <1>5, <2>3 DEF TakeState
    <3>2. CASE Send("command", ThisCall.cmd, ThisCall.arg)
      BY <2>1, <3>1, <3>2 DEF Writes, Rank, Body, Labels
    <3>3. CASE Send("reset", "RESET_QUEUE", NoArg)
      BY <2>1, <3>1, <3>3 DEF Writes, Rank, Body, Labels
    <3>4. CASE Send("set_mode", "SET_MODE", expectedMode)
      BY <2>1, <3>1, <3>4 DEF Writes, Rank, Body, Labels
    <3>5. CASE label = "state" /\ SayHello("hello_after_state")
      <4>1. Rank(pc) < Rank("hello_after_state")
        BY <2>1, <3>5 DEF Rank
      <4> QED BY <3>1, <3>5, <4>1, HelloWrites
    <3> QED BY <1>5, <2>3, <3>2, <3>3, <3>4, <3>5 DEF TakeState
  <2> QED BY <2>2, <2>3
<1>6. ASSUME TakeReset PROVE (Writes(ThisCall) /\ calls' = calls) \/ Finishes
  <2>1. pc = "reset"
    BY <1>6 DEF TakeReset, Take
  <2>2. CASE RaiseSafe
    BY <2>2, <1>2
  <2>3. CASE Send("set_mode", "SET_MODE", expectedMode) /\ calls' = calls
    BY <2>1, <2>3 DEF Writes, Rank, Body, Labels
  <2> QED BY <1>6, <2>2, <2>3 DEF TakeReset
<1>7. ASSUME TakeSetMode PROVE (Writes(ThisCall) /\ calls' = calls) \/ Finishes
  <2>1. pc = "set_mode"
    BY <1>7 DEF TakeSetMode, Take
  <2>2. CASE RaiseSafe
    BY <2>2, <1>2
  <2>3. CASE Send("command", ThisCall.cmd, ThisCall.arg) /\ calls' = calls
    BY <2>1, <2>3 DEF Writes, Rank, Body, Labels
  <2> QED BY <1>7, <2>2, <2>3 DEF TakeSetMode
<1>8. ASSUME TakeCommand PROVE Finishes
  <2>1. BenchResult \in Results
    BY DEF BenchResult, Results
  <2> QED BY <1>8, <2>1 DEF TakeCommand, Finishes
<1>9. \E label \in Labels \ {"idle"} : Take(label)
  BY DEF Answered, TakeHello, TakeBeat, TakeState, TakeReset, TakeSetMode, TakeCommand, Labels
<1> QED BY <1>1, <1>3, <1>4, <1>5, <1>6, <1>7, <1>8, <1>9 DEF Answered

\* A call starts with a frame, too.
LEMMA CallShape ==
  ASSUME NEW cmd, NEW arg, Call(cmd, arg)
  PROVE  LET call == [cmd |-> cmd, arg |-> arg, result |-> "pending"] IN
           /\ pc = "idle" /\ Len(calls) < MaxCalls
           /\ calls' = Append(calls, call) /\ Writes(call)
           /\ UNCHANGED <<hostVars, syncRequired, mirrorVars, toClient, plugged,
                          budgetVars, historyVars>>
<1> DEFINE call == [cmd |-> cmd, arg |-> arg, result |-> "pending"]
<1>1. pc = "idle" /\ Rank(pc) = 0
  BY DEF Call, Rank
<1>2. CASE Proceed(call, sentAge' >= 1, syncRequired)
  <2> HIDE DEF call
  <2>1. Rank(pc) <= 1
    BY <1>1
  <2>2. Writes(call)
    BY <1>2, <2>1, ProceedWrites
  <2> QED BY <2>2 DEF Call, call
<1>3. CASE SayHello("hello")
  <2>1. Rank(pc) < Rank("hello")
    BY <1>1 DEF Rank
  <2> HIDE DEF call
  <2>2. Writes(call)
    BY <1>3, <2>1, HelloWrites
  <2> QED BY <2>2 DEF Call, call
<1> QED BY <1>2, <1>3 DEF Call

-----------------------------------------------------------------------------
(* The types, and where the ids of a call come from.                       *)

Frames == Requests \cup {Garbled}
Lines  == Acks \cup Nacks \cup {MalformedNack, Garbled}

CallRecords == [cmd : {"SCHED", "SET_MODE", "RESET_QUEUE"},
                arg : Modes \cup {NoArg} \cup 1..MaxCalls,
                result : Results \cup {"pending"}]

\* The three calls; send() number c asks for job c.
Asks(call, c) ==
  \/ call.cmd = "SCHED" /\ call.arg = c
  \/ call.cmd = "SET_MODE" /\ call.arg \in Modes
  \/ call.cmd = "RESET_QUEUE" /\ call.arg = NoArg

CallsInv ==
  /\ calls \in Seq(CallRecords) /\ Len(calls) <= MaxCalls
  /\ \A c \in 1..Len(calls) : Asks(calls[c], c)
  /\ \A c \in 1..Len(calls) :
       calls[c].result = "pending" <=> c = Len(calls) /\ pc # "idle"
  /\ pc # "idle" => Len(calls) > 0

\* A call hands out ids in the order of its frames.
FrameInv ==
  /\ pc \in Labels /\ attempt \in 0..MaxRetries /\ nextId \in Nat \ {0}
  /\ pc = "idle" => nextId - 1 <= 9 * Len(calls)
  /\ pc # "idle" =>
       /\ nextId - 1 <= 9 * (Len(calls) - 1) + Rank(pc)
       /\ inflight \in Requests /\ inflight.id = nextId - 1
       /\ Body(pc, ThisCall, inflight.cmd, inflight.arg)

WireInv == toHost \in Seq(Frames) /\ toClient \in Seq(Lines)

LEMMA RankFacts ==
  \A label \in Labels : Rank(label) \in 0..9 /\ (Rank(label) = 0 <=> label = "idle")
BY DEF Rank, Labels

LEMMA RequestOf ==
  ASSUME NEW id \in MsgIds, NEW label, NEW call, NEW c \in 1..MaxCalls, Asks(call, c),
         NEW cmd, NEW arg, Body(label, call, cmd, arg)
  PROVE  [id |-> id, cmd |-> cmd, flaw |-> "none", arg |-> arg] \in Requests
<1>1. c \in Jobs
  BY LinkAssumption
<1>2. \/ cmd = "HELLO" /\ arg \in OfferedSets
      \/ cmd = "SET_MODE" /\ arg \in Modes
      \/ cmd = "SCHED" /\ arg \in Jobs
      \/ cmd \in {"HEARTBEAT", "GET_STATE", "RESET_QUEUE"} /\ arg = NoArg
  BY <1>1 DEF Body, Asks
<1> QED BY <1>2 DEF Requests

\* A frame written is a request of the endpoint's under an id of its own.
LEMMA WritesStep ==
  ASSUME NEW n \in 1..MaxCalls, NEW call, Asks(call, n),
         pc \in Labels, nextId \in Nat \ {0}, nextId - 1 <= 9 * (n - 1) + Rank(pc),
         toHost \in Seq(Frames), Writes(call)
  PROVE  /\ pc' \in Labels /\ pc' # "idle" /\ attempt' = 0 /\ nextId' = nextId + 1
         /\ nextId' - 1 <= 9 * (n - 1) + Rank(pc')
         /\ inflight' \in Requests /\ inflight'.id = nextId
         /\ Body(pc', call, inflight'.cmd, inflight'.arg)
         /\ Rank(pc) < Rank(pc')
         /\ toHost' = Written(inflight') /\ toHost' \in Seq(Frames)
<1>1. PICK label, cmd, arg :
        /\ label \in Labels /\ Rank(pc) < Rank(label)
        /\ Body(label, call, cmd, arg)
        /\ Send(label, cmd, arg)
  BY DEF Writes
<1>2. Rank(label) \in 1..9 /\ label # "idle" /\ Rank(pc) \in 0..9
  BY <1>1, RankFacts
<1>3. nextId <= 9 * (n - 1) + Rank(label)
  BY <1>1, <1>2
<1>4. nextId \in MsgIds
  <2>1. nextId \in 1..(9 * MaxCalls)
    BY <1>2, <1>3, LinkAssumption
  <2> QED BY <2>1, LinkAssumption
<1> DEFINE frame == [id |-> nextId, cmd |-> cmd, flaw |-> "none", arg |-> arg]
<1>5. frame \in Requests
  BY <1>1, <1>4, RequestOf
<1>6. /\ pc' = label /\ inflight' = frame /\ attempt' = 0 /\ nextId' = nextId + 1
      /\ toHost' = Written(frame)
  BY <1>1 DEF Send
<1>7. toHost' \in Seq(Frames)
  BY <1>5, <1>6 DEF Written, Frames
<1>8. inflight'.id = nextId /\ inflight'.cmd = cmd /\ inflight'.arg = arg
  BY <1>6
<1> HIDE DEF frame
<1> QED BY <1>1, <1>2, <1>3, <1>5, <1>6, <1>7, <1>8

\* The end of a call.
LEMMA FinishesStep ==
  ASSUME CallsInv, pc # "idle", Finishes
  PROVE  /\ CallsInv' /\ pc' = "idle" /\ Len(calls') = Len(calls)
         /\ UNCHANGED <<inflight, attempt, nextId, toHost>>
         /\ \A c \in 1..(Len(calls) - 1) : calls'[c] = calls[c]
         /\ calls'[Len(calls)].cmd = ThisCall.cmd
         /\ calls'[Len(calls)].arg = ThisCall.arg
<1>1. PICK result \in Results : Finish(result)
  BY DEF Finishes
<1>2. /\ pc' = "idle" /\ calls' = [calls EXCEPT ![Len(calls)].result = result]
      /\ UNCHANGED <<inflight, attempt, nextId, toHost>>
  BY <1>1 DEF Finish
<1> DEFINE n == Len(calls)
<1>3. n \in 1..MaxCalls /\ calls[n] \in CallRecords /\ calls \in Seq(CallRecords)
  BY LinkAssumption DEF CallsInv
<1> DEFINE r == [calls[n] EXCEPT !.result = result]
<1>4. r \in CallRecords /\ r.cmd = calls[n].cmd /\ r.arg = calls[n].arg /\ r.result = result
  BY <1>3 DEF CallRecords
<1>5. calls' = [calls EXCEPT ![n] = r]
  BY <1>2
<1> HIDE DEF r
<1>6. /\ calls' \in Seq(CallRecords) /\ Len(calls') = n /\ calls'[n] = r
      /\ \A c \in 1..n : c # n => calls'[c] = calls[c]
  BY <1>3, <1>4, <1>5
<1>7. result # "pending"
  BY DEF Results
<1>8. CallsInv'
  BY <1>2, <1>3, <1>4, <1>6, <1>7 DEF CallsInv, Asks
<1> QED BY <1>2, <1>3, <1>4, <1>6, <1>8 DEF ThisCall

-----------------------------------------------------------------------------
(* The steps of the endpoint and of the cable.                             *)

\* Every handler answers, a repeat with the answer filed under its id.
LEMMA RequestAnswers ==
  ASSUME HostInv, NEW req \in Requests, HandleRequest(req)
  PROVE  \/ /\ ~Fresh(req) /\ reply' = recentResults[req.id]
            /\ UNCHANGED <<mode, queue, synced, recentIds, recentResults>>
         \/ Fresh(req) /\ \E a : Answer(req.id, a)
<1>1. CASE HandleDuplicate(req)
  BY <1>1 DEF HandleDuplicate, Fresh, controlVars, linkVars, cacheVars
<1>2. ASSUME NEW code, Reject(req, code) PROVE \E a : Answer(req.id, a)
  BY <1>2 DEF Reject
<1>3. BadArgs(req) => \E a : Answer(req.id, a)
  BY <1>2 DEF BadArgs
<1>4. CASE HandleBusy(req) \/ HandleUnknown(req)
  BY <1>2, <1>4 DEF HandleBusy, HandleUnknown, Dispatch
<1>5. CASE Hello(req) \/ Heartbeat(req)
  BY <1>2, <1>3, <1>5 DEF Hello, Heartbeat, Dispatch
<1>6. CASE SetMode(req) \/ Sched(req)
  BY <1>2, <1>3, <1>6 DEF SetMode, Sched, Dispatch
<1>7. CASE GetState(req) \/ ResetQueue(req)
  BY <1>2, <1>3, <1>7 DEF GetState, ResetQueue, Dispatch
<1> QED BY <1>1, <1>4, <1>5, <1>6, <1>7 DEF HandleRequest

\* The answer to a request is on file under its id, as filed.
LEMMA AnswerOnFile ==
  ASSUME HostInv, NEW req \in Requests, HandleRequest(req)
  PROVE  /\ HostInv' /\ reply' \in Acks \cup Nacks
         /\ req.id \in DOMAIN recentResults' /\ recentResults'[req.id] = reply'
<1>1. HostInv'
  BY RequestStep
<1>2. req.id \in DOMAIN recentResults' /\ recentResults'[req.id] = reply'
  <2>1. CASE ~Fresh(req) /\ reply' = recentResults[req.id] /\ UNCHANGED recentResults
    BY <2>1 DEF Fresh
  <2>2. CASE Fresh(req) /\ \E a : Answer(req.id, a)
    <3>1. PICK a : Answer(req.id, a)
      BY <2>2
    <3> QED BY <2>2, <3>1, AnswerIsFiled
  <2> QED BY <2>1, <2>2, RequestAnswers
<1> QED BY <1>1, <1>2 DEF HostInv, HostTypeOK

\* What the endpoint can do with the head of its input.
LEMMA HostStepShape ==
  ASSUME HostInv, WireInv, HostStep
  PROVE  /\ HostInv' /\ WireInv' /\ toHost # <<>>
         /\ \/ Head(toHost) = Garbled /\ HandleMalformed /\ reply' = MalformedNack
            \/ Head(toHost) \in Requests /\ HandleRequest(Head(toHost))
               /\ reply' \in Acks \cup Nacks
         /\ UNCHANGED sessionVars
<1>1. toHost # <<>> /\ Head(toHost) \in Frames /\ Tail(toHost) \in Seq(Frames)
  BY DEF HostStep, WireInv
<1>2. Garbled \notin Requests
  BY DEF Garbled, Requests
<1>3. CASE Head(toHost) = Garbled
  <2>1. HandleMalformed /\ reply' = MalformedNack
    BY <1>3 DEF HostStep, HandleMalformed
  <2>2. HostInv'
    BY <2>1, HostStepInv DEF HostNext
  <2>3. WireInv'
    BY <1>1, <2>1 DEF HostStep, WireInv, Lines
  <2> QED BY <1>1, <1>3, <2>1, <2>2, <2>3 DEF HostStep
<1>4. CASE Head(toHost) # Garbled
  <2>1. Head(toHost) \in Requests /\ HandleRequest(Head(toHost))
    BY <1>1, <1>4 DEF HostStep, Frames
  <2>2. HostInv' /\ reply' \in Acks \cup Nacks
    BY <2>1, AnswerOnFile
  <2>3. WireInv'
    BY <1>1, <2>2 DEF HostStep, WireInv, Lines
  <2> QED BY <1>1, <2>1, <2>2, <2>3 DEF HostStep
<1> QED BY <1>3, <1>4

LEMMA HostTickStep ==
  ASSUME HostInv, Tick
  PROVE  HostInv'
BY HostStepInv DEF HostNext

LEMMA HostResetStep ==
  ASSUME HostInv, HostReset
  PROVE  HostInv'
<1>1. /\ mode' \in Modes /\ queue' = <<>> /\ schedulerState' = "IDLE"
      /\ linkState' = "DISCONNECTED" /\ synced' = FALSE /\ capabilities' = {}
      /\ heartbeatAge' = Never /\ reply' = NoReply /\ busy' = busy
      /\ recentResults' = <<>> /\ recentIds' = <<>>
  BY LinkAssumption DEF HostReset
<1>2. DOMAIN recentResults' = {} /\ Len(<<>>) = 0
  BY <1>1
<1>3. CacheCoherent'
  BY <1>1, <1>2, HostAssumption DEF CacheCoherent
<1>4. HostTypeOK'
  <2>1. reply' \in Replies /\ linkState' \in LinkStates /\ heartbeatAge' \in Ages
    BY <1>1 DEF Replies, LinkStates, Ages
  <2>2. queue' \in Seq(Jobs) /\ Len(queue') <= MaxQueueDepth
    BY <1>1, <1>2, HostAssumption
  <2>3. recentIds' \in Seq(MsgIds)
    BY <1>1
  <2> QED BY <1>1, <1>2, <2>1, <2>2, <2>3 DEF HostInv, HostTypeOK
<1>5. QueueCoherent'
  BY <1>1 DEF QueueCoherent
<1> QED BY <1>3, <1>4, <1>5 DEF HostInv

\* A damaged line is a line, and the rest of it stays.
LEMMA GarbleStep ==
  ASSUME WireInv, Garble
  PROVE  WireInv'
<1>1. CASE toHost # <<>> /\ toHost' = <<Garbled>> \o Tail(toHost) /\ UNCHANGED toClient
  BY <1>1 DEF WireInv, Frames
<1>2. CASE toClient # <<>> /\ toClient' = <<Garbled>> \o Tail(toClient) /\ UNCHANGED toHost
  BY <1>2 DEF WireInv, Lines
<1> QED BY <1>1, <1>2 DEF Garble

-----------------------------------------------------------------------------
(* What the transport remembers of the endpoint.                           *)

\* The answered heartbeat is never older than the sent one: the refused one
\* is, but only until its handshake is answered.
MirrorInv ==
  /\ expectedMode \in Modes /\ lastDepth \in 0..MaxQueueDepth
  /\ fault \in {"NORMAL", "SAFE", "WATCHDOG"}
  /\ sentAge \in 0..PollAge /\ okAge \in LinkAges
  /\ okAge # Never => okAge <= sentAge
  /\ pc = "hello_after_beat" => okAge = 0

CountInv ==
  /\ effects \in [1..MaxCalls -> Nat]
  /\ late \in Nat /\ unplugs \in Nat /\ garbles \in Nat
  /\ sessions \in Nat \ {0} /\ hostResets \in Nat

LinkInv == HostInv /\ CallsInv /\ FrameInv /\ WireInv /\ MirrorInv /\ CountInv

LEMMA AnswerType ==
  ASSUME toClient \in Seq(Lines), toClient # <<>>
  PROVE  /\ answer \in Lines
         /\ isAck => answer \in Acks /\ answer.mode \in Modes
                     /\ answer.depth \in 0..MaxQueueDepth
         /\ answer.status = "NACK" => answer \in Nacks \cup {MalformedNack}
<1>1. answer \in Lines
  BY DEF answer
<1>2. answer \in Acks => answer.status = "ACK" /\ answer.mode \in Modes
                         /\ answer.depth \in 0..MaxQueueDepth
  BY DEF Acks
<1>3. answer \in Nacks \cup {MalformedNack} => answer.status = "NACK"
  BY DEF Nacks, MalformedNack, NackFor
<1>4. Garbled.status = "GARBLED"
  BY DEF Garbled
<1> QED BY <1>1, <1>2, <1>3, <1>4 DEF Lines, isAck

LEMMA TakeMirror ==
  ASSUME MirrorInv, WireInv, NEW label \in Labels \ {"idle"}, Take(label)
  PROVE  /\ expectedMode' \in Modes /\ lastDepth' \in 0..MaxQueueDepth
         /\ okAge' = (IF label = "beat" THEN 0 ELSE okAge)
         /\ pc = label
<1>1. toClient # <<>> /\ toClient \in Seq(Lines)
  BY DEF Take, WireInv
<1>2. isAck => answer.mode \in Modes /\ answer.depth \in 0..MaxQueueDepth
  BY <1>1, AnswerType
<1>3. expectedMode' \in Modes
  BY <1>2 DEF Take, MirrorInv
<1>4. lastDepth' \in 0..MaxQueueDepth
  BY <1>2, HostAssumption DEF Take, MirrorInv
<1> QED BY <1>3, <1>4 DEF Take, OkAgeAfter

LEMMA AnsweredMirror ==
  ASSUME MirrorInv, WireInv, Answered
  PROVE  MirrorInv'
<1>1. ASSUME NEW label \in Labels \ {"idle"}, Take(label),
             fault' \in {fault, "SAFE", "NORMAL"},
             sentAge' \in {sentAge, PollAge},
             pc' # "hello_after_beat" \/ label = "beat"
      PROVE  MirrorInv'
  <2>1. /\ expectedMode' \in Modes /\ lastDepth' \in 0..MaxQueueDepth
        /\ okAge' = (IF label = "beat" THEN 0 ELSE okAge) /\ pc = label
    BY <1>1, TakeMirror
  <2>2. okAge \in LinkAges /\ sentAge \in 0..PollAge /\ (okAge # Never => okAge <= sentAge)
    BY DEF MirrorInv
  <2> QED BY <1>1, <2>1, <2>2 DEF MirrorInv, LinkAges, PollAge, Never
<1>2. ASSUME NEW label \in Labels \ {"idle"}, Take(label), label \in {"beat", "hello_after_beat"},
             fault' \in {fault, "SAFE", "NORMAL"}, sentAge' = 0,
             pc' # "hello_after_beat"
      PROVE  MirrorInv'
  <2>1. /\ expectedMode' \in Modes /\ lastDepth' \in 0..MaxQueueDepth
        /\ okAge' = (IF label = "beat" THEN 0 ELSE okAge) /\ pc = label
    BY <1>2, TakeMirror
  <2>2. okAge' = 0
    BY <1>2, <2>1 DEF MirrorInv
  <2> QED BY <1>2, <2>1, <2>2 DEF MirrorInv, LinkAges, PollAge, Never
<1> USE DEF Labels
<1>3. CASE TakeHello("hello", PollAge)
  <2>1. pc' # "hello_after_beat"
    BY <1>3 DEF TakeHello, RaiseSafe, Finish, Proceed, Send
  <2>2. Take("hello") /\ fault' \in {fault, "SAFE"} /\ sentAge' \in {sentAge, PollAge}
    BY <1>3 DEF TakeHello, RaiseSafe
  <2> QED BY <1>1, <2>1, <2>2
<1>4. CASE TakeHello("hello_after_beat", 0)
  <2>1. pc' # "hello_after_beat"
    BY <1>4 DEF TakeHello, RaiseSafe, Finish, Proceed, Send
  <2>2. Take("hello_after_beat") /\ fault' \in {fault, "SAFE"} /\ sentAge' \in {sentAge, 0}
    BY <1>4 DEF TakeHello, RaiseSafe
  <2> QED BY <1>1, <1>2, <2>1, <2>2
<1>5. CASE TakeHello("hello_after_state", PollAge)
  <2>1. pc' # "hello_after_beat"
    BY <1>5 DEF TakeHello, RaiseSafe, Finish, Proceed, Send
  <2>2. Take("hello_after_state") /\ fault' \in {fault, "SAFE"} /\ sentAge' \in {sentAge, PollAge}
    BY <1>5 DEF TakeHello, RaiseSafe
  <2> QED BY <1>1, <2>1, <2>2
<1>6. CASE TakeBeat
  <2>1. Take("beat") /\ fault' = fault
    BY <1>6 DEF TakeBeat
  <2>2. CASE isAck
    <3>1. sentAge' = 0 /\ pc' # "hello_after_beat"
      BY <1>6, <2>2 DEF TakeBeat, Proceed, Send
    <3> QED BY <1>2, <2>1, <3>1
  <2>3. CASE ~isAck
    <3>1. sentAge' = sentAge
      BY <1>6, <2>3 DEF TakeBeat
    <3> QED BY <1>1, <2>1, <3>1
  <2> QED BY <2>2, <2>3
<1>7. ASSUME NEW label \in {"state", "state_again"}, TakeState(label) PROVE MirrorInv'
  <2>1. pc' # "hello_after_beat"
    BY <1>7 DEF TakeState, RaiseSafe, Finish, SayHello, Send
  <2>2. Take(label) /\ fault' \in {fault, "SAFE"} /\ sentAge' = sentAge
    BY <1>7 DEF TakeState, RaiseSafe
  <2> QED BY <1>1, <2>1, <2>2
<1>8. CASE TakeReset
  <2>1. pc' # "hello_after_beat"
    BY <1>8 DEF TakeReset, RaiseSafe, Finish, Send
  <2>2. Take("reset") /\ fault' \in {fault, "SAFE"} /\ sentAge' = sentAge
    BY <1>8 DEF TakeReset, RaiseSafe
  <2> QED BY <1>1, <2>1, <2>2
<1>9. CASE TakeSetMode
  <2>1. pc' # "hello_after_beat"
    BY <1>9 DEF TakeSetMode, RaiseSafe, Finish, Send
  <2>2. Take("set_mode") /\ fault' \in {fault, "SAFE"} /\ sentAge' = sentAge
    BY <1>9 DEF TakeSetMode, RaiseSafe
  <2> QED BY <1>1, <2>1, <2>2
<1>10. CASE TakeCommand
  <2>1. pc' # "hello_after_beat"
    BY <1>10 DEF TakeCommand, Finish
  <2>2. Take("command") /\ fault' \in {fault, "SAFE", "NORMAL"} /\ sentAge' = sentAge
    BY <1>10 DEF TakeCommand
  <2> QED BY <1>1, <2>1, <2>2
<1> QED BY <1>3, <1>4, <1>5, <1>6, <1>7, <1>8, <1>9, <1>10 DEF Answered

LEMMA CallMirror ==
  ASSUME MirrorInv, NEW cmd, NEW arg, Call(cmd, arg)
  PROVE  MirrorInv'
<1>1. /\ UNCHANGED mirrorVars
      /\ \E elapsed \in 0..PollAge :
           sentAge' = Older(sentAge, elapsed) /\ okAge' = Older(okAge, elapsed)
  BY DEF Call
<1>2. pc' # "hello_after_beat"
  BY DEF Call, Proceed, SayHello, Send
<1> QED BY <1>1, <1>2 DEF MirrorInv, mirrorVars, Older, LinkAges, PollAge, Never

-----------------------------------------------------------------------------
(* The type invariant of the link.                                         *)

\* A call that starts.
LEMMA CallStep ==
  ASSUME LinkInv, NEW cmd \in {"SCHED", "SET_MODE", "RESET_QUEUE"}, NEW arg, Call(cmd, arg),
         Asks([cmd |-> cmd, arg |-> arg, result |-> "pending"], Len(calls) + 1)
  PROVE  /\ LinkInv' /\ Len(calls') = Len(calls) + 1
         /\ \A c \in 1..Len(calls) : calls'[c] = calls[c]
         /\ calls'[Len(calls')].cmd = cmd /\ calls'[Len(calls')].arg = arg
         /\ pc = "idle" /\ pc' # "idle" /\ toHost' = Written(inflight')
         /\ inflight'.id = nextId /\ nextId' = nextId + 1
         /\ UNCHANGED <<hostVars, syncRequired, mirrorVars, toClient, plugged, budgetVars,
                        historyVars>>
<1> DEFINE call == [cmd |-> cmd, arg |-> arg, result |-> "pending"]
           n == Len(calls) + 1
<1>1. /\ pc = "idle" /\ Len(calls) < MaxCalls
      /\ calls' = Append(calls, call) /\ Writes(call)
      /\ UNCHANGED <<hostVars, syncRequired, mirrorVars, toClient, plugged, budgetVars,
                     historyVars>>
  BY CallShape
<1>2. calls \in Seq(CallRecords) /\ Len(calls) \in Nat /\ n \in 1..MaxCalls
  BY <1>1, LinkAssumption DEF LinkInv, CallsInv
<1>3. call \in CallRecords /\ Asks(call, n) /\ call.result = "pending"
  BY <1>2 DEF CallRecords, Asks
<1>4. call.cmd = cmd /\ call.arg = arg
  OBVIOUS
<1> HIDE DEF call
<1>5. /\ calls' \in Seq(CallRecords) /\ Len(calls') = n /\ calls'[n] = call
      /\ \A c \in 1..Len(calls) : calls'[c] = calls[c]
  BY <1>1, <1>2, <1>3
<1>6. /\ pc' \in Labels /\ pc' # "idle" /\ attempt' = 0 /\ nextId' = nextId + 1
      /\ nextId' - 1 <= 9 * (n - 1) + Rank(pc')
      /\ inflight' \in Requests /\ inflight'.id = nextId
      /\ Body(pc', call, inflight'.cmd, inflight'.arg)
      /\ toHost' = Written(inflight') /\ toHost' \in Seq(Frames)
  <2>1. Rank(pc) = 0 /\ nextId - 1 <= 9 * (n - 1) + Rank(pc)
    BY <1>1, <1>2 DEF LinkInv, FrameInv, Rank
  <2> HIDE DEF n
  <2> QED BY <1>1, <1>2, <1>3, <2>1, WritesStep DEF LinkInv, FrameInv, WireInv
<1>7. CallsInv'
  <2>1. \A c \in 1..n : c \in 1..Len(calls) \/ c = n
    BY <1>2
  <2>2. \A c \in 1..n : Asks(calls'[c], c)
    BY <1>3, <1>5, <2>1 DEF LinkInv, CallsInv
  <2>3. \A c \in 1..n : calls'[c].result = "pending" <=> c = n
    BY <1>1, <1>2, <1>3, <1>5, <2>1 DEF LinkInv, CallsInv
  <2> QED BY <1>2, <1>5, <1>6, <2>2, <2>3 DEF CallsInv
<1>8. FrameInv'
  <2>1. ThisCall' = call
    BY <1>5 DEF ThisCall
  <2>2. nextId' \in Nat \ {0} /\ nextId' - 1 = nextId
    BY <1>6 DEF LinkInv, FrameInv
  <2> QED BY <1>5, <1>6, <2>1, <2>2, LinkAssumption DEF FrameInv
<1>9. HostInv'
  BY <1>1, HostStepInv DEF LinkInv
<1>10. WireInv' /\ MirrorInv' /\ CountInv'
  BY <1>1, <1>6, CallMirror DEF LinkInv, WireInv, CountInv, budgetVars, historyVars
<1> QED BY <1>1, <1>4, <1>5, <1>6, <1>7, <1>8, <1>9, <1>10 DEF LinkInv

\* What an answer makes of the call: its next frame, or its end.
LEMMA AnsweredStep ==
  ASSUME LinkInv, Answered
  PROVE  /\ LinkInv' /\ Len(calls') = Len(calls) /\ pc # "idle"
         /\ UNCHANGED <<hostVars, plugged, budgetVars, historyVars>>
         /\ toClient # <<>> /\ toClient' = Tail(toClient)
         /\ \/ /\ pc' # "idle" /\ calls' = calls /\ toHost' = Written(inflight')
               /\ inflight'.id = nextId /\ nextId' = nextId + 1 /\ Rank(pc) < Rank(pc')
            \/ /\ pc' = "idle" /\ UNCHANGED <<inflight, nextId, toHost>>
               /\ \A c \in 1..(Len(calls) - 1) : calls'[c] = calls[c]
<1>1. /\ pc # "idle" /\ toClient # <<>> /\ toClient' = Tail(toClient)
      /\ UNCHANGED <<hostVars, plugged, budgetVars, historyVars>>
      /\ (Writes(ThisCall) /\ calls' = calls) \/ Finishes
  BY AnsweredShape DEF LinkInv, MirrorInv
<1>2. HostInv' /\ CountInv' /\ MirrorInv'
  BY <1>1, HostStepInv, AnsweredMirror DEF LinkInv, CountInv, budgetVars, historyVars
<1>3. toClient' \in Seq(Lines)
  BY <1>1 DEF LinkInv, WireInv
<1>4. CASE Writes(ThisCall) /\ calls' = calls
  <2> DEFINE n == Len(calls)
  <2>1. n \in 1..MaxCalls /\ Asks(ThisCall, n)
    BY <1>1, LinkAssumption DEF LinkInv, CallsInv, ThisCall
  <2>2. /\ pc' \in Labels /\ pc' # "idle" /\ attempt' = 0 /\ nextId' = nextId + 1
        /\ nextId' - 1 <= 9 * (n - 1) + Rank(pc')
        /\ inflight' \in Requests /\ inflight'.id = nextId
        /\ Body(pc', ThisCall, inflight'.cmd, inflight'.arg)
        /\ Rank(pc) < Rank(pc')
        /\ toHost' = Written(inflight') /\ toHost' \in Seq(Frames)
    <3> HIDE DEF n
    <3>1. /\ pc \in Labels /\ nextId \in Nat \ {0} /\ nextId - 1 <= 9 * (n - 1) + Rank(pc)
          /\ toHost \in Seq(Frames)
      BY <1>1 DEF LinkInv, FrameInv, WireInv, n
    <3> QED BY <1>4, <2>1, <3>1, WritesStep
  <2>3. FrameInv'
    <3>1. ThisCall' = ThisCall
      BY <1>4 DEF ThisCall
    <3>2. nextId' \in Nat \ {0} /\ nextId' - 1 = nextId
      BY <2>2 DEF LinkInv, FrameInv
    <3> QED BY <1>4, <2>2, <3>1, <3>2, LinkAssumption DEF FrameInv
  <2>4. CallsInv'
    BY <1>1, <1>4, <2>2 DEF LinkInv, CallsInv
  <2> QED BY <1>1, <1>2, <1>3, <1>4, <2>2, <2>3, <2>4 DEF LinkInv, WireInv
<1>5. CASE Finishes
  <2>1. /\ CallsInv' /\ pc' = "idle" /\ Len(calls') = Len(calls)
        /\ UNCHANGED <<inflight, attempt, nextId, toHost>>
        /\ \A c \in 1..(Len(calls) - 1) : calls'[c] = calls[c]
    BY <1>1, <1>5, FinishesStep DEF LinkInv
  <2>2. FrameInv'
    <3>1. nextId - 1 <= 9 * Len(calls)
      <4>1. Rank(pc) \in 0..9 /\ Len(calls) \in Nat
        BY RankFacts DEF LinkInv, FrameInv, CallsInv
      <4> QED BY <1>1, <4>1 DEF LinkInv, FrameInv
    <3> QED BY <2>1, <3>1 DEF LinkInv, FrameInv, Labels
  <2> QED BY <1>1, <1>2, <1>3, <2>1, <2>2 DEF LinkInv, WireInv
<1> QED BY <1>1, <1>4, <1>5

LEMMA ParseErrorStep ==
  ASSUME LinkInv, ParseError
  PROVE  /\ LinkInv' /\ Len(calls') = Len(calls) /\ pc # "idle" /\ pc' = "idle"
         /\ UNCHANGED <<hostVars, plugged, budgetVars, historyVars, inflight, nextId, toHost>>
         /\ \A c \in 1..(Len(calls) - 1) : calls'[c] = calls[c]
         /\ toClient # <<>> /\ toClient' = Tail(toClient) /\ syncRequired' = TRUE
<1>1. /\ pc # "idle" /\ toClient # <<>> /\ toClient' = Tail(toClient)
      /\ Finishes /\ fault' = "SAFE" /\ syncRequired' = TRUE
      /\ UNCHANGED <<hostVars, handshakeComplete, sentAge, okAge, expectedMode,
                     lastDepth, plugged, budgetVars, historyVars>>
  BY DEF ParseError, Finishes, Results, OutcomeUnknown
<1>2. /\ CallsInv' /\ pc' = "idle" /\ Len(calls') = Len(calls)
      /\ UNCHANGED <<inflight, attempt, nextId, toHost>>
      /\ \A c \in 1..(Len(calls) - 1) : calls'[c] = calls[c]
  BY <1>1, FinishesStep DEF LinkInv
<1>3. FrameInv'
  <2>1. nextId - 1 <= 9 * Len(calls)
    <3>1. Rank(pc) \in 0..9 /\ Len(calls) \in Nat
      BY RankFacts DEF LinkInv, FrameInv, CallsInv
    <3> QED BY <1>1, <3>1 DEF LinkInv, FrameInv
  <2> QED BY <1>2, <2>1 DEF LinkInv, FrameInv, Labels
<1>4. HostInv' /\ CountInv' /\ WireInv'
  BY <1>1, <1>2, HostStepInv DEF LinkInv, CountInv, WireInv, budgetVars, historyVars
<1>5. MirrorInv'
  BY <1>1, <1>2 DEF LinkInv, MirrorInv
<1> QED BY <1>1, <1>2, <1>3, <1>4, <1>5 DEF LinkInv

\* Nothing came: the same frame once more, or the end of the call.
LEMMA TimeoutStep ==
  ASSUME LinkInv, Timeout
  PROVE  /\ LinkInv' /\ Len(calls') = Len(calls) /\ pc # "idle"
         /\ UNCHANGED <<hostVars, plugged, budgetVars, effects, inflight, nextId, toClient,
                        expectedMode, lastDepth, handshakeComplete>>
         /\ toClient = <<>> /\ (toHost = <<>> \/ late' = late + 1) /\ late' \in {late, late + 1}
         /\ \/ /\ pc' = pc /\ calls' = calls /\ toHost' = Written(inflight)
               /\ UNCHANGED syncRequired
            \/ /\ pc' = "idle" /\ toHost' = toHost /\ syncRequired' = TRUE
               /\ \A c \in 1..(Len(calls) - 1) : calls'[c] = calls[c]
               /\ calls'[Len(calls)].result = "raised"
<1>1. /\ pc # "idle" /\ toClient = <<>> /\ (toHost = <<>> \/ late' = late + 1)
      /\ late' \in {late, late + 1}
      /\ UNCHANGED <<hostVars, handshakeComplete, sentAge, okAge, expectedMode,
                     lastDepth, toClient, plugged, budgetVars, effects>>
  BY DEF Timeout
<1>2. HostInv' /\ CountInv'
  BY <1>1, HostStepInv DEF LinkInv, CountInv, budgetVars
<1>3. ASSUME RetriesLeft, attempt' = NextAttempt, toHost' = Written(inflight),
             UNCHANGED <<pc, inflight, nextId, uncertain, calls, fault, syncRequired>>
      PROVE  LinkInv'
  <2>1. attempt' \in 0..MaxRetries
    BY <1>3, LinkAssumption DEF LinkInv, FrameInv, RetriesLeft, NextAttempt
  <2>2. FrameInv'
    BY <1>3, <2>1 DEF LinkInv, FrameInv, ThisCall
  <2>3. WireInv'
    BY <1>1, <1>3 DEF LinkInv, FrameInv, WireInv, Written, Frames
  <2>4. CallsInv' /\ MirrorInv'
    BY <1>1, <1>3 DEF LinkInv, CallsInv, MirrorInv
  <2> QED BY <1>2, <2>2, <2>3, <2>4 DEF LinkInv
<1>4. ASSUME Finish("raised"), fault' = "WATCHDOG", OutcomeUnknown
      PROVE  /\ LinkInv' /\ pc' = "idle" /\ toHost' = toHost /\ syncRequired' = TRUE
             /\ UNCHANGED <<inflight, nextId>>
             /\ \A c \in 1..(Len(calls) - 1) : calls'[c] = calls[c]
             /\ Len(calls') = Len(calls) /\ calls'[Len(calls)].result = "raised"
  <2>1. Finishes
    BY <1>4 DEF Finishes, Results
  <2>2. /\ CallsInv' /\ pc' = "idle" /\ Len(calls') = Len(calls)
        /\ UNCHANGED <<inflight, attempt, nextId, toHost>>
        /\ \A c \in 1..(Len(calls) - 1) : calls'[c] = calls[c]
    BY <1>1, <2>1, FinishesStep DEF LinkInv
  <2>3. FrameInv'
    <3>1. nextId - 1 <= 9 * Len(calls)
      <4>1. Rank(pc) \in 0..9 /\ Len(calls) \in Nat
        BY RankFacts DEF LinkInv, FrameInv, CallsInv
      <4> QED BY <1>1, <4>1 DEF LinkInv, FrameInv
    <3> QED BY <2>2, <3>1 DEF LinkInv, FrameInv, Labels
  <2>4. WireInv' /\ MirrorInv'
    BY <1>1, <1>4, <2>2 DEF LinkInv, WireInv, MirrorInv
  <2>5. calls'[Len(calls)].result = "raised"
    <3>1. Len(calls) \in 1..Len(calls) /\ calls[Len(calls)] \in CallRecords
      BY <1>1 DEF LinkInv, CallsInv
    <3> QED BY <1>4, <3>1 DEF Finish, CallRecords, LinkInv, CallsInv
  <2> QED BY <1>2, <1>4, <2>2, <2>3, <2>4, <2>5 DEF LinkInv, OutcomeUnknown
<1>5. CASE /\ RetriesLeft /\ attempt' = NextAttempt /\ toHost' = Written(inflight)
           /\ UNCHANGED <<pc, inflight, nextId, uncertain, calls, fault, syncRequired>>
  BY <1>1, <1>3, <1>5
<1>6. CASE Finish("raised") /\ fault' = "WATCHDOG" /\ OutcomeUnknown
  BY <1>1, <1>4, <1>6
<1> QED BY <1>5, <1>6 DEF Timeout

\* The other actors leave the transport alone, or replace it.
LEMMA WorldStep ==
  ASSUME LinkInv, HostStep \/ HostTick \/ HostReset \/ Unplug \/ Replug \/ Garble
  PROVE  LinkInv' /\ UNCHANGED sessionVars
<1>1. UNCHANGED sessionVars
  BY DEF HostStep, HostTick, HostReset, Unplug, Replug, Garble
<1>2. CallsInv' /\ FrameInv' /\ MirrorInv'
  BY <1>1 DEF sessionVars, frameVars, linkTimers, mirrorVars, LinkInv, CallsInv, FrameInv,
              MirrorInv, ThisCall
<1>3. CountInv'
  <2>1. CASE HostStep
    BY <2>1 DEF HostStep, LinkInv, CountInv, budgetVars
  <2>2. CASE HostTick \/ HostReset \/ Unplug \/ Replug \/ Garble
    BY <2>2 DEF HostTick, HostReset, Unplug, Replug, Garble, LinkInv, CountInv, budgetVars,
                historyVars
  <2> QED BY <2>1, <2>2
<1>4. HostInv'
  <2>1. CASE HostStep
    BY <2>1, HostStepShape DEF LinkInv
  <2>2. CASE HostTick \/ HostReset
    BY <2>2, HostTickStep, HostResetStep DEF HostTick, LinkInv
  <2>3. CASE Unplug \/ Replug \/ Garble
    BY <2>3, HostStepInv DEF Unplug, Replug, Garble, LinkInv
  <2> QED BY <2>1, <2>2, <2>3
<1>5. WireInv'
  <2>1. CASE HostStep
    BY <2>1, HostStepShape DEF LinkInv
  <2>2. CASE Garble
    BY <2>2, GarbleStep DEF LinkInv
  <2>3. CASE HostTick \/ HostReset \/ Unplug \/ Replug
    <3>1. toHost' \in {toHost, <<>>} /\ toClient' \in {toClient, <<>>}
      BY <2>3 DEF HostTick, HostReset, Unplug, Replug, wireVars
    <3>2. <<>> \in Seq(Frames) /\ <<>> \in Seq(Lines)
      OBVIOUS
    <3> QED BY <3>1, <3>2, Zenon DEF LinkInv, WireInv
  <2> QED BY <2>1, <2>2, <2>3
<1> QED BY <1>1, <1>2, <1>3, <1>4, <1>5 DEF LinkInv

LEMMA ReopenStep ==
  ASSUME LinkInv, Reopen
  PROVE  LinkInv'
<1>1. /\ pc = "idle" /\ pc' = "idle" /\ nextId' = 1 /\ attempt' = 0
      /\ sentAge' = PollAge /\ okAge' = Never /\ expectedMode' = "AUTO" /\ lastDepth' = 0
      /\ fault' = "NORMAL" /\ toClient' = <<>> /\ sessions' = sessions + 1
      /\ UNCHANGED <<hostVars, calls, toHost, plugged, unplugs, garbles, hostResets, historyVars>>
  BY DEF Reopen, SessionStart
<1>2. HostInv'
  BY <1>1, HostStepInv DEF LinkInv
<1>3. CallsInv' /\ WireInv' /\ CountInv'
  BY <1>1 DEF LinkInv, CallsInv, WireInv, CountInv, historyVars
<1>4. FrameInv'
  BY <1>1, LinkAssumption DEF LinkInv, CallsInv, FrameInv
<1>5. MirrorInv'
  BY <1>1, HostAssumption DEF MirrorInv, Modes, PollAge, LinkAges, Never
<1> QED BY <1>2, <1>3, <1>4, <1>5 DEF LinkInv

\* The three calls.
Calls == SendSched \/ SendMode \/ SendReset

LEMMA CallsAre ==
  ASSUME LinkInv, Calls
  PROVE  \E cmd, arg :
           /\ cmd \in {"SCHED", "SET_MODE", "RESET_QUEUE"} /\ Call(cmd, arg)
           /\ Asks([cmd |-> cmd, arg |-> arg, result |-> "pending"], Len(calls) + 1)
BY DEF Calls, SendSched, SendMode, SendReset, Asks

LEMMA LinkInvStep ==
  ASSUME LinkInv, [Next]_vars
  PROVE  LinkInv'
<1>1. CASE Calls
  BY <1>1, CallsAre, CallStep
<1>2. CASE UNCHANGED vars
  <2>1. HostInv'
    BY <1>2, HostStepInv DEF LinkInv, vars
  <2> QED BY <1>2, <2>1 DEF vars, sessionVars, frameVars, linkTimers, mirrorVars, wireVars,
          budgetVars, historyVars, LinkInv, CallsInv, FrameInv, WireInv, MirrorInv, CountInv,
          ThisCall
<1> QED BY <1>1, <1>2, AnsweredStep, ParseErrorStep, TimeoutStep, WorldStep, ReopenStep
        DEF Next, Calls

LEMMA LinkInvInitially == Init => LinkInv
<1> SUFFICES ASSUME Init PROVE LinkInv
  OBVIOUS
<1>1. HostInv
  BY HostInitInv DEF Init
<1>2. CallsInv /\ FrameInv /\ WireInv
  BY LinkAssumption DEF Init, CallsInv, FrameInv, WireInv, Labels
<1>3. MirrorInv /\ CountInv
  BY HostAssumption, LinkAssumption
     DEF Init, MirrorInv, CountInv, Modes, PollAge, LinkAges, Never
<1> QED BY <1>1, <1>2, <1>3 DEF LinkInv

LEMMA LinkInvAlways == Spec => []LinkInv
BY LinkInvInitially, LinkInvStep, PTL DEF Spec

\* The dedupe cache, the queue and the handshake of the endpoint stay
\* coherent also across its restarts, whatever the cable delivers.
THEOREM HostStaysCoherent == Spec => [](HostTypeOK /\ CacheCoherent /\ QueueCoherent)
<1>1. LinkInv => HostTypeOK /\ CacheCoherent /\ QueueCoherent
  BY DEF LinkInv, HostInv
<1> QED BY <1>1, LinkInvAlways, PTL

\* The transport's poll has nothing to do that _ensure_link_ready has not
\* done: the last answered heartbeat is no older than the last one sent.
THEOREM PollStaysRedundant == Spec => []PollIsRedundant
<1>1. LinkInv => PollIsRedundant
  <2> SUFFICES ASSUME LinkInv PROVE PollIsRedundant
    OBVIOUS
  <2>1. LinkTypeOK
    <3>1. sentAge \in LinkAges
      BY DEF LinkInv, MirrorInv, LinkAges
    <3>2. \A c \in 1..Len(calls) : calls[c] \in CallRecords
      BY DEF LinkInv, CallsInv
    <3> QED BY <3>1, <3>2
            DEF LinkInv, FrameInv, MirrorInv, CallsInv, CallRecords, Results, LinkTypeOK
  <2> QED BY <2>1 DEF LinkInv, MirrorInv, PollIsRedundant
<1> QED BY <1>1, LinkInvAlways, PTL

-----------------------------------------------------------------------------
(* At most once: lines of frames.                                          *)

IsJob(f) == f.cmd = "SCHED"

\* The copies of one job's frame are alike, and nothing but noise is between
\* them.
Together(w) ==
  /\ \A i, j \in 1..Len(w) :
       IsJob(w[i]) /\ IsJob(w[j]) /\ w[i].arg = w[j].arg => w[i] = w[j]
  /\ \A i, j, k \in 1..Len(w) :
       i < j /\ j < k /\ IsJob(w[i]) /\ w[i] = w[k] => w[j] \in {Garbled, w[i]}

\* A copy of a job that is enqueued comes before every other frame, and the
\* endpoint knows it as its latest, or lost its handshake since.
DoneFirst(w, done, shaken, ids) ==
  \A i \in 1..Len(w) :
    IsJob(w[i]) /\ done[w[i].arg] = 1 =>
      /\ \A j \in 1..Len(w) : j < i => w[j] \in {Garbled, w[i]}
      /\ shaken => ids # <<>> /\ ids[Len(ids)] = w[i].id

JobsUpTo(w, n) == \A i \in 1..Len(w) : IsJob(w[i]) => w[i].arg \in 1..n

LEMMA ShiftKeeps ==
  ASSUME NEW w \in Seq(Frames), NEW v \in Seq(Frames), NEW d \in Nat, Len(v) + d <= Len(w),
         \A i \in 1..Len(v) : v[i] \in {w[i + d], Garbled}
  PROVE  /\ Together(w) => Together(v)
         /\ \A done, shaken, ids :
              DoneFirst(w, done, shaken, ids) => DoneFirst(v, done, shaken, ids)
         /\ \A n : JobsUpTo(w, n) => JobsUpTo(v, n)
<1>1. ~IsJob(Garbled)
  BY DEF IsJob, Garbled
<1>2. \A i \in 1..Len(v) : i + d \in 1..Len(w) /\ (IsJob(v[i]) => v[i] = w[i + d])
  BY <1>1
<1>3. \A i, j \in 1..Len(v) : i < j => i + d < j + d
  OBVIOUS
<1>4. ASSUME Together(w) PROVE Together(v)
  <2>1. ASSUME NEW i \in 1..Len(v), NEW j \in 1..Len(v),
               IsJob(v[i]), IsJob(v[j]), v[i].arg = v[j].arg
        PROVE  v[i] = v[j]
    <3>1. i + d \in 1..Len(w) /\ j + d \in 1..Len(w) /\ v[i] = w[i + d] /\ v[j] = w[j + d]
      BY <1>2, <2>1
    <3>2. IsJob(w[i + d]) /\ IsJob(w[j + d]) /\ w[i + d].arg = w[j + d].arg
      BY <2>1, <3>1
    <3> QED BY <1>4, <3>1, <3>2 DEF Together
  <2>2. ASSUME NEW i \in 1..Len(v), NEW j \in 1..Len(v), NEW k \in 1..Len(v),
               i < j, j < k, IsJob(v[i]), v[i] = v[k]
        PROVE  v[j] \in {Garbled, v[i]}
    <3>1. w[j + d] \in {Garbled, w[i + d]}
      <4>1. /\ i + d \in 1..Len(w) /\ j + d \in 1..Len(w) /\ k + d \in 1..Len(w)
            /\ i + d < j + d /\ j + d < k + d
            /\ IsJob(w[i + d]) /\ w[i + d] = w[k + d]
        BY <1>2, <1>3, <2>2
      <4> QED BY <1>4, <4>1 DEF Together
    <3> QED BY <1>2, <2>2, <3>1
  <2> QED BY <2>1, <2>2 DEF Together
<1>5. ASSUME NEW done, NEW shaken, NEW ids, DoneFirst(w, done, shaken, ids)
      PROVE  DoneFirst(v, done, shaken, ids)
  <2>1. ASSUME NEW i \in 1..Len(v), IsJob(v[i]), done[v[i].arg] = 1
        PROVE  /\ \A j \in 1..Len(v) : j < i => v[j] \in {Garbled, v[i]}
               /\ shaken => ids # <<>> /\ ids[Len(ids)] = v[i].id
    <3>1. i + d \in 1..Len(w) /\ v[i] = w[i + d]
      BY <1>2, <2>1
    <3>2. /\ \A j \in 1..Len(w) : j < i + d => w[j] \in {Garbled, v[i]}
          /\ shaken => ids # <<>> /\ ids[Len(ids)] = v[i].id
      BY <1>5, <2>1, <3>1 DEF DoneFirst
    <3> QED BY <1>2, <1>3, <2>1, <3>2
  <2> QED BY <2>1 DEF DoneFirst
<1>6. \A n : JobsUpTo(w, n) => JobsUpTo(v, n)
  BY <1>2 DEF JobsUpTo
<1> QED BY <1>4, <1>5, <1>6

LEMMA BetweenCopies ==
  ASSUME NEW w, Together(w), NEW i \in 1..Len(w), NEW j \in 1..Len(w), NEW k \in 1..Len(w),
         i < j, j < k, IsJob(w[i]), w[i] = w[k]
  PROVE  w[j] \in {Garbled, w[i]}
BY DEF Together

LEMMA AppendPlaces ==
  ASSUME NEW w \in Seq(Frames), NEW g \in Frames
  PROVE  /\ Append(w, g) \in Seq(Frames) /\ Len(Append(w, g)) = Len(w) + 1
         /\ Append(w, g)[Len(w) + 1] = g
         /\ \A i \in 1..Len(w) : Append(w, g)[i] = w[i]
         /\ \A i \in 1..(Len(w) + 1) : i = Len(w) + 1 \/ (i \in 1..Len(w) /\ i < Len(w) + 1)
OBVIOUS

\* A frame of a job not in the line yet, or of no job.
LEMMA AddNew ==
  ASSUME NEW w \in Seq(Frames), NEW g \in Frames, NEW done, NEW shaken, NEW ids,
         Together(w), DoneFirst(w, done, shaken, ids),
         IsJob(g) => /\ \A i \in 1..Len(w) : IsJob(w[i]) => w[i].arg # g.arg
                     /\ done[g.arg] = 0
  PROVE  Together(Append(w, g)) /\ DoneFirst(Append(w, g), done, shaken, ids)
<1> DEFINE v == Append(w, g)
           n == Len(w) + 1
<1>1. /\ Len(v) = n /\ v[n] = g /\ n \in Nat /\ Len(w) \in Nat
      /\ \A i \in 1..Len(w) : v[i] = w[i]
      /\ \A i \in 1..n : i = n \/ (i \in 1..Len(w) /\ i < n)
  BY AppendPlaces
<1> HIDE DEF v, n
<1>2. \A i, j \in 1..n : IsJob(v[i]) /\ IsJob(v[j]) /\ v[i].arg = v[j].arg => v[i] = v[j]
  BY <1>1 DEF Together
<1>3. ASSUME NEW i \in 1..n, NEW j \in 1..n, NEW k \in 1..n,
             i < j, j < k, IsJob(v[i]), v[i] = v[k]
      PROVE  v[j] \in {Garbled, v[i]}
  <2>1. i # n /\ j # n
    BY <1>1, <1>3
  <2>2. i \in 1..Len(w) /\ j \in 1..Len(w)
    BY <1>1, <2>1
  <2>3. k # n
    BY <1>1, <1>3, <2>2
  <2> QED BY <1>1, <1>3, <2>2, <2>3 DEF Together
<1>4. ASSUME NEW i \in 1..n, IsJob(v[i]), done[v[i].arg] = 1
      PROVE  /\ \A j \in 1..n : j < i => v[j] \in {Garbled, v[i]}
             /\ shaken => ids # <<>> /\ ids[Len(ids)] = v[i].id
  <2>1. i \in 1..Len(w)
    BY <1>1, <1>4
  <2>2. \A j \in 1..n : j < i => j \in 1..Len(w)
    BY <1>1, <2>1
  <2> QED BY <1>1, <1>4, <2>1, <2>2 DEF DoneFirst
<1>5. Together(v) /\ DoneFirst(v, done, shaken, ids)
  BY <1>1, <1>2, <1>3, <1>4 DEF Together, DoneFirst
<1> QED BY <1>5 DEF v

\* One more copy of the last frame.
LEMMA AddAgain ==
  ASSUME NEW w \in Seq(Frames), w # <<>>, NEW g \in Frames, w[Len(w)] = g,
         NEW done, NEW shaken, NEW ids,
         Together(w), DoneFirst(w, done, shaken, ids)
  PROVE  Together(Append(w, g)) /\ DoneFirst(Append(w, g), done, shaken, ids)
<1> DEFINE v == Append(w, g)
           n == Len(w) + 1
           l == Len(w)
<1>1. /\ Len(v) = n /\ v[n] = g /\ n \in Nat /\ Len(w) \in Nat
      /\ \A i \in 1..Len(w) : v[i] = w[i]
      /\ \A i \in 1..n : i = n \/ (i \in 1..Len(w) /\ i < n)
      /\ l \in 1..Len(w) /\ v[n] = v[l] /\ l < n /\ n = l + 1
  BY AppendPlaces
<1> HIDE DEF v, n, l
<1>2. \A i, j \in 1..n : IsJob(v[i]) /\ IsJob(v[j]) /\ v[i].arg = v[j].arg => v[i] = v[j]
  BY <1>1 DEF Together
<1>3. ASSUME NEW i \in 1..n, NEW j \in 1..n, NEW k \in 1..n,
             i < j, j < k, IsJob(v[i]), v[i] = v[k]
      PROVE  v[j] \in {Garbled, v[i]}
  <2>1. i \in 1..Len(w) /\ j \in 1..Len(w)
    BY <1>1, <1>3
  <2>2. CASE k # n
    BY <1>1, <1>3, <2>1, <2>2 DEF Together
  <2>3. CASE k = n /\ j = l
    BY <1>1, <1>3, <2>3
  <2>4. CASE k = n /\ j # l
    <3>1. j < l
      BY <1>1, <2>1, <2>4 DEF l
    <3> QED BY <1>1, <1>3, <2>1, <2>4, <3>1 DEF Together
  <2> QED BY <2>2, <2>3, <2>4
<1>4. ASSUME NEW i \in 1..n, IsJob(v[i]), done[v[i].arg] = 1
      PROVE  /\ \A j \in 1..n : j < i => v[j] \in {Garbled, v[i]}
             /\ shaken => ids # <<>> /\ ids[Len(ids)] = v[i].id
  <2>1. CASE i \in 1..Len(w)
    <3>1. \A j \in 1..n : j < i => j \in 1..Len(w)
      BY <1>1, <2>1
    <3> QED BY <1>1, <1>4, <2>1, <3>1 DEF DoneFirst
  <2>2. CASE i = n
    <3>1. /\ \A j \in 1..Len(w) : j < l => w[j] \in {Garbled, w[l]}
          /\ shaken => ids # <<>> /\ ids[Len(ids)] = w[l].id
      BY <1>1, <1>4, <2>2 DEF DoneFirst
    <3>2. \A j \in 1..n : j < i => j \in 1..Len(w) /\ (j < l \/ j = l)
      BY <1>1, <2>2 DEF l
    <3> QED BY <1>1, <2>2, <3>1, <3>2
  <2> QED BY <1>1, <2>1, <2>2
<1>5. Together(v) /\ DoneFirst(v, done, shaken, ids)
  BY <1>1, <1>2, <1>3, <1>4 DEF Together, DoneFirst
<1> QED BY <1>5 DEF v

LEMMA AddJobs ==
  ASSUME NEW w \in Seq(Frames), NEW g \in Frames, NEW n, JobsUpTo(w, n),
         IsJob(g) => g.arg \in 1..n
  PROVE  JobsUpTo(Append(w, g), n)
BY AppendPlaces DEF JobsUpTo

LEMMA HeadGoes ==
  ASSUME NEW w \in Seq(Frames), w # <<>>
  PROVE  /\ Tail(w) \in Seq(Frames) /\ Len(Tail(w)) + 1 = Len(w)
         /\ Len(w) \in Nat /\ Len(Tail(w)) \in Nat
         /\ \A i \in 1..Len(Tail(w)) : Tail(w)[i] = w[i + 1] /\ i + 1 \in 1..Len(w)
         /\ 1 \in 1..Len(w) /\ w[1] = Head(w) /\ Head(w) \in Frames
OBVIOUS

-----------------------------------------------------------------------------
(* At most once: the invariant.                                            *)

\* The frames under way, and the one that may be written again.
Wave == IF pc = "command" THEN Append(toHost, inflight) ELSE toHost

OnceInv ==
  /\ Together(Wave)
  /\ DoneFirst(Wave, effects, synced, recentIds)
  /\ JobsUpTo(Wave, Len(calls))
  /\ \A c \in 1..MaxCalls :
       effects[c] \in {0, 1} /\ (c > Len(calls) => effects[c] = 0)
  /\ pc \notin {"idle", "command"} =>
       JobsUpTo(toHost, Len(calls) - 1) /\ effects[Len(calls)] = 0

\* Only send() writes job frames, each under the number of its call.
JobFrames ==
  pc # "idle" =>
    /\ inflight \in Frames /\ Len(calls) \in 1..MaxCalls
    /\ IsJob(inflight) => pc = "command" /\ inflight.arg = Len(calls)

WaveOK == toHost \in Seq(Frames) /\ Wave \in Seq(Frames) /\ JobFrames

LEMMA WaveType == LinkInv => WaveOK
<1> SUFFICES ASSUME LinkInv PROVE WaveOK
  OBVIOUS
<1>1. JobFrames
  <2> SUFFICES ASSUME pc # "idle"
               PROVE  /\ inflight \in Frames /\ Len(calls) \in 1..MaxCalls
                      /\ IsJob(inflight) => pc = "command" /\ inflight.arg = Len(calls)
    BY DEF JobFrames
  <2>1. Len(calls) \in 1..MaxCalls /\ Asks(ThisCall, Len(calls))
    BY LinkAssumption DEF LinkInv, CallsInv, ThisCall
  <2>2. Body(pc, ThisCall, inflight.cmd, inflight.arg) /\ inflight \in Frames
    BY DEF LinkInv, FrameInv, Frames
  <2>3. IsJob(inflight) => pc = "command" /\ inflight.arg = Len(calls)
    BY <2>1, <2>2, Zenon DEF Body, Asks, IsJob
  <2> QED BY <2>1, <2>2, <2>3
<1>2. toHost \in Seq(Frames)
  BY DEF LinkInv, WireInv
<1>3. Wave \in Seq(Frames)
  BY <1>1, <1>2 DEF Wave, JobFrames
<1> QED BY <1>1, <1>2, <1>3 DEF WaveOK

LEMMA WaveTypeNext == LinkInv' => WaveOK'
BY WaveType, PTL

\* A new frame goes out.
LEMMA WaveSends ==
  ASSUME LinkInv, LinkInv', OnceInv, pc # "command", pc' # "idle",
         toHost' = Written(inflight'), UNCHANGED <<effects, synced, recentIds>>,
         JobsUpTo(toHost, Len(calls') - 1), effects[Len(calls')] = 0,
         Len(calls) <= Len(calls')
  PROVE  OnceInv'
<1> DEFINE g == inflight'
           n == Len(calls')
<1>1. g \in Frames /\ n \in 1..MaxCalls /\ (IsJob(g) => pc' = "command" /\ g.arg = n)
  BY WaveTypeNext DEF WaveOK, JobFrames
<1>2. toHost \in Seq(Frames) /\ Wave = toHost
  BY WaveType DEF WaveOK, Wave
<1>3. toHost' = toHost \/ toHost' = Append(toHost, g)
  BY DEF Written
<1>4. Together(toHost) /\ DoneFirst(toHost, effects, synced, recentIds)
  BY <1>2 DEF OnceInv
<1>5. JobsUpTo(toHost, n) /\ (IsJob(g) => \A i \in 1..Len(toHost) : IsJob(toHost[i]) => toHost[i].arg # g.arg)
  BY <1>1 DEF JobsUpTo
<1>6. \A c \in 1..MaxCalls : effects'[c] \in {0, 1} /\ (c > n => effects'[c] = 0)
  <2>1. Len(calls) \in Nat
    BY DEF LinkInv, CallsInv
  <2> QED BY <1>1, <2>1 DEF OnceInv
<1> HIDE DEF g, n
<1> DEFINE once == Append(toHost, g)
<1>7. /\ Together(once) /\ DoneFirst(once, effects, synced, recentIds) /\ JobsUpTo(once, n)
      /\ once \in Seq(Frames) /\ once # <<>> /\ once[Len(once)] = g
  <2>1. IsJob(g) => effects[g.arg] = 0
    BY <1>1 DEF n
  <2>2. Together(once) /\ DoneFirst(once, effects, synced, recentIds)
    BY <1>1, <1>2, <1>4, <1>5, <2>1, AddNew
  <2>3. JobsUpTo(once, n)
    BY <1>1, <1>2, <1>5, AddJobs
  <2>4. once \in Seq(Frames) /\ once # <<>> /\ once[Len(once)] = g
    BY <1>1, <1>2
  <2> QED BY <2>2, <2>3, <2>4
<1> HIDE DEF once
<1>8. CASE pc' = "command"
  <2>1. Wave' = Append(toHost', g)
    BY <1>8 DEF Wave, g
  <2>2. CASE toHost' = toHost
    <3>1. Wave' = once
      BY <2>1, <2>2 DEF once
    <3> QED BY <1>6, <1>7, <1>8, <3>1 DEF OnceInv, n
  <2>3. CASE toHost' = once
    <3>1. Wave' = Append(once, g)
      BY <2>1, <2>3
    <3>2. Together(Wave') /\ DoneFirst(Wave', effects, synced, recentIds)
      BY <1>1, <1>7, <3>1, AddAgain
    <3>3. JobsUpTo(Wave', n)
      BY <1>1, <1>7, <3>1, AddJobs
    <3> QED BY <1>6, <1>8, <3>2, <3>3 DEF OnceInv, n
  <2> QED BY <1>3, <2>2, <2>3 DEF once
<1>9. CASE pc' # "command"
  <2>1. Wave' = toHost' /\ ~IsJob(g)
    BY <1>1, <1>9 DEF Wave
  <2>2. JobsUpTo(once, n - 1)
    BY <1>1, <1>2, <2>1, AddJobs DEF once, n
  <2>3. /\ Together(Wave') /\ DoneFirst(Wave', effects, synced, recentIds)
        /\ JobsUpTo(Wave', n) /\ JobsUpTo(toHost', n - 1)
    BY <1>3, <1>4, <1>5, <1>7, <2>1, <2>2 DEF once, n
  <2> QED BY <1>6, <2>3 DEF OnceInv, n
<1> QED BY <1>8, <1>9

\* Frames are lost, damaged or left behind.
LEMMA WaveShrinks ==
  ASSUME LinkInv, LinkInv', OnceInv, Len(calls') = Len(calls), UNCHANGED effects,
         pc' \in {pc, "idle"},
         NEW d \in Nat, Len(Wave') + d <= Len(Wave),
         \A i \in 1..Len(Wave') : Wave'[i] \in {Wave[i + d], Garbled},
         synced' = FALSE \/ UNCHANGED <<synced, recentIds>>
  PROVE  OnceInv'
<1>1. Wave \in Seq(Frames) /\ Wave' \in Seq(Frames)
  BY WaveType, WaveTypeNext DEF WaveOK
<1> DEFINE w == Wave
           v == Wave'
<1>2. /\ Together(w) => Together(v)
      /\ DoneFirst(w, effects, synced, recentIds) => DoneFirst(v, effects, synced, recentIds)
      /\ JobsUpTo(w, Len(calls)) => JobsUpTo(v, Len(calls))
      /\ JobsUpTo(w, Len(calls) - 1) => JobsUpTo(v, Len(calls) - 1)
  <2> HIDE DEF w, v
  <2>1. w \in Seq(Frames) /\ v \in Seq(Frames) /\ Len(v) + d <= Len(w)
        /\ \A i \in 1..Len(v) : v[i] \in {w[i + d], Garbled}
    BY <1>1 DEF w, v
  <2> QED BY <2>1, ShiftKeeps
<1>3. Together(Wave') /\ DoneFirst(Wave', effects, synced, recentIds) /\ JobsUpTo(Wave', Len(calls))
  BY <1>2 DEF OnceInv
<1>4. DoneFirst(Wave', effects', synced', recentIds')
  BY <1>3 DEF DoneFirst
<1>5. pc' \notin {"idle", "command"} => JobsUpTo(toHost', Len(calls) - 1) /\ effects[Len(calls)] = 0
  <2>1. ASSUME pc' \notin {"idle", "command"} PROVE pc = pc' /\ Wave = toHost /\ Wave' = toHost'
    BY <2>1 DEF Wave
  <2> QED BY <1>2, <2>1 DEF OnceInv
<1> QED BY <1>3, <1>4, <1>5 DEF OnceInv

\* What the endpoint does with a request it has not answered before.
LEMMA FreshRequest ==
  ASSUME HostInv, NEW req \in Requests, Fresh(req), HandleRequest(req)
  PROVE  /\ recentIds' # <<>> /\ recentIds'[Len(recentIds')] = req.id
         /\ req.cmd = "SCHED" => synced' = synced
         /\ Len(queue') > Len(queue) =>
              /\ req.cmd = "SCHED" /\ synced
              /\ queue' = Append(queue, req.arg)
<1>1. PICK a : Answer(req.id, a)
  BY RequestAnswers
<1>2. recentIds \in Seq(MsgIds) /\ req.id \in MsgIds
  BY RequestFacts DEF HostInv, HostTypeOK
<1>3. \/ recentIds' = Append(recentIds, req.id)
      \/ recentIds' = Append(Tail(recentIds), req.id) /\ recentIds # <<>>
  <2>1. recentIds = <<>> => Len(recentIds) < DedupeCacheSize
    BY HostAssumption
  <2> QED BY <1>1, <2>1 DEF Answer, Remember, RememberedIds
<1>4. recentIds' # <<>> /\ recentIds'[Len(recentIds')] = req.id
  <2>1. ASSUME NEW ids \in Seq(MsgIds), recentIds' = Append(ids, req.id)
        PROVE  recentIds' # <<>> /\ recentIds'[Len(recentIds')] = req.id
    BY <1>2, <2>1
  <2>2. recentIds # <<>> => Tail(recentIds) \in Seq(MsgIds)
    BY <1>2
  <2> QED BY <1>2, <1>3, <2>1, <2>2
<1>5. queue \in Seq(Jobs) /\ Len(queue) \in Nat
  BY DEF HostInv, HostTypeOK
<1>6. CASE UNCHANGED <<queue, synced>>
  BY <1>4, <1>5, <1>6
<1>7. CASE ~UNCHANGED <<queue, synced>>
  <2>1. /\ ~HandleDuplicate(req) /\ ~HandleBusy(req) /\ ~HandleUnknown(req)
        /\ ~BadArgs(req) /\ \A code : ~Reject(req, code)
    BY <1>7, RejectHasNoEffect DEF HandleDuplicate, HandleBusy, HandleUnknown, BadArgs,
       controlVars, linkVars
  <2>2. CASE Hello(req) \/ Heartbeat(req) \/ GetState(req)
    <3>1. queue' = queue
      BY <2>1, <2>2 DEF Hello, Heartbeat, GetState, SetQueue
    <3>2. req.cmd # "SCHED"
      BY <2>2 DEF Hello, Heartbeat, GetState, Dispatch
    <3> QED BY <1>4, <1>5, <3>1, <3>2
  <2>3. CASE SetMode(req) \/ ResetQueue(req)
    <3>1. queue' \in {queue, <<>>} /\ req.cmd # "SCHED"
      BY <2>1, <2>3 DEF SetMode, ResetQueue, SetQueue, Dispatch
    <3> QED BY <1>4, <1>5, <3>1
  <2>4. CASE Sched(req)
    <3>1. queue' = Append(queue, req.arg) /\ synced' = synced /\ req.cmd = "SCHED" /\ synced
      BY <2>1, <2>4 DEF Sched, SetQueue, Dispatch, linkVars, RefreshedLink
    <3> QED BY <1>4, <3>1
  <2> QED BY <2>1, <2>2, <2>3, <2>4 DEF HandleRequest
<1> QED BY <1>6, <1>7

\* The endpoint takes the first frame of the line.
LEMMA WaveServes ==
  ASSUME LinkInv, LinkInv', OnceInv, HostStep
  PROVE  OnceInv'
<1>1. /\ toHost # <<>> /\ toHost \in Seq(Frames) /\ Wave \in Seq(Frames)
      /\ pc' = pc /\ calls' = calls /\ inflight' = inflight /\ toHost' = Tail(toHost)
  BY WaveType DEF WaveOK, HostStep, sessionVars, frameVars
<1>2. Wave # <<>> /\ Wave' = Tail(Wave) /\ Head(Wave) = Head(toHost)
  <2>1. CASE pc = "command"
    <3>1. inflight \in Frames
      BY <2>1, WaveType DEF WaveOK, JobFrames
    <3>2. Wave = Append(toHost, inflight) /\ Wave' = Append(Tail(toHost), inflight)
      BY <1>1, <2>1 DEF Wave
    <3> QED BY <1>1, <3>1, <3>2
  <2>2. CASE pc # "command"
    BY <1>1, <2>2 DEF Wave
  <2> QED BY <2>1, <2>2
<1> DEFINE w == Wave
           v == Tail(w)
<1>3. /\ v \in Seq(Frames) /\ Len(v) + 1 = Len(w) /\ Len(w) \in Nat /\ Len(v) \in Nat
      /\ \A i \in 1..Len(v) : v[i] = w[i + 1] /\ i + 1 \in 1..Len(w)
      /\ 1 \in 1..Len(w) /\ w[1] = Head(toHost)
  BY <1>1, <1>2, HeadGoes
<1>4. /\ Together(w) /\ DoneFirst(w, effects, synced, recentIds) /\ JobsUpTo(w, Len(calls))
      /\ w \in Seq(Frames) /\ Wave' = v
  BY <1>1, <1>2 DEF OnceInv
<1> HIDE DEF w, v
<1>5. /\ Together(v) /\ JobsUpTo(v, Len(calls))
      /\ \A done, shaken, ids :
           DoneFirst(w, done, shaken, ids) => DoneFirst(v, done, shaken, ids)
  <2>1. Len(v) + 1 <= Len(w) /\ \A i \in 1..Len(v) : v[i] \in {w[i + 1], Garbled}
    BY <1>3
  <2> QED BY <1>3, <1>4, <2>1, ShiftKeeps
<1>6. pc' \notin {"idle", "command"} =>
        /\ JobsUpTo(toHost', Len(calls') - 1) /\ effects[Len(calls)] = 0
        /\ JobsUpTo(toHost, Len(calls) - 1)
  <2> SUFFICES ASSUME pc' \notin {"idle", "command"}
               PROVE  /\ JobsUpTo(toHost', Len(calls') - 1) /\ effects[Len(calls)] = 0
                      /\ JobsUpTo(toHost, Len(calls) - 1)
    OBVIOUS
  <2>1. JobsUpTo(toHost, Len(calls) - 1) /\ effects[Len(calls)] = 0
    BY <1>1 DEF OnceInv
  <2>2. JobsUpTo(Tail(toHost), Len(calls) - 1)
    <3>1. /\ \A i \in 1..Len(Tail(toHost)) : Tail(toHost)[i] \in {toHost[i + 1], Garbled}
          /\ Tail(toHost) \in Seq(Frames) /\ Len(Tail(toHost)) + 1 <= Len(toHost)
      BY <1>1, HeadGoes
    <3> DEFINE rest == Tail(toHost)
    <3>2. /\ \A i \in 1..Len(rest) : rest[i] \in {toHost[i + 1], Garbled}
          /\ rest \in Seq(Frames) /\ Len(rest) + 1 <= Len(toHost)
      BY <3>1
    <3> HIDE DEF rest
    <3>3. JobsUpTo(rest, Len(calls) - 1)
      BY <1>1, <2>1, <3>2, ShiftKeeps
    <3> QED BY <3>3 DEF rest
  <2> QED BY <1>1, <2>1, <2>2
<1>7. /\ effects \in [1..MaxCalls -> Nat] /\ queue \in Seq(Jobs) /\ Len(queue) \in Nat
      /\ \A c \in 1..MaxCalls : effects[c] \in {0, 1} /\ (c > Len(calls) => effects[c] = 0)
  BY DEF LinkInv, CountInv, HostInv, HostTypeOK, OnceInv
<1>8. ASSUME effects' = effects, DoneFirst(v, effects, synced', recentIds')
      PROVE  OnceInv'
  BY <1>1, <1>4, <1>5, <1>6, <1>7, <1>8 DEF OnceInv
<1>9. ASSUME ~(Len(queue') > Len(queue)) PROVE effects' = effects
  BY <1>7, <1>9 DEF HostStep
<1>10. CASE UNCHANGED <<queue, synced, recentIds>>
  <2>1. effects' = effects
    BY <1>7, <1>9, <1>10
  <2> QED BY <1>4, <1>5, <1>8, <1>10, <2>1
<1>11. CASE ~UNCHANGED <<queue, synced, recentIds>>
  <2> DEFINE req == Head(toHost)
  <2>1. /\ req \in Requests /\ HandleRequest(req) /\ Fresh(req) /\ req # Garbled
    <3>1. \/ req = Garbled /\ HandleMalformed
          \/ req \in Requests /\ HandleRequest(req)
      BY HostStepShape DEF LinkInv
    <3>2. ~HandleMalformed
      BY <1>11 DEF HandleMalformed, controlVars, linkVars, cacheVars
    <3>3. Garbled \notin Requests
      BY DEF Garbled, Requests
    <3>4. Fresh(req)
      BY <1>11, <3>1, <3>2, RequestAnswers DEF LinkInv
    <3> QED BY <3>1, <3>2, <3>3, <3>4
  <2>2. /\ recentIds' # <<>> /\ recentIds'[Len(recentIds')] = req.id
        /\ req.cmd = "SCHED" => synced' = synced
        /\ Len(queue') > Len(queue) =>
             /\ req.cmd = "SCHED" /\ synced
             /\ queue' = Append(queue, req.arg)
    <3> HIDE DEF req
    <3> QED BY <2>1, FreshRequest DEF LinkInv
  <2> HIDE DEF req
  <2>3. w[1] = req
    BY <1>3 DEF req
  \* A copy of an executed job is no longer fresh.
  <2>4. ASSUME IsJob(req), effects[req.arg] = 1 PROVE ~synced
    <3>1. synced => recentIds # <<>> /\ recentIds[Len(recentIds)] = req.id
      BY <1>3, <1>4, <2>3, <2>4 DEF DoneFirst
    <3>2. recentIds # <<>> /\ recentIds[Len(recentIds)] = req.id => req.id \in DOMAIN recentResults
      <4>1. recentIds \in Seq(MsgIds)
            /\ DOMAIN recentResults = {recentIds[i] : i \in 1..Len(recentIds)}
        BY DEF LinkInv, HostInv, HostTypeOK, CacheCoherent
      <4> QED BY <4>1
    <3> QED BY <2>1, <3>1, <3>2 DEF Fresh
  \* Behind the head, what is executed is a copy of it.
  <2>5. ASSUME NEW i \in 1..Len(v), IsJob(v[i]), effects[v[i].arg] = 1
        PROVE  v[i] = req /\ ~synced
    <3>1. i + 1 \in 1..Len(w) /\ v[i] = w[i + 1] /\ 1 < i + 1
      BY <1>3
    <3>2. w[1] \in {Garbled, w[i + 1]}
      BY <1>3, <1>4, <2>5, <3>1 DEF DoneFirst
    <3> QED BY <2>1, <2>3, <2>4, <2>5, <3>1, <3>2
  <2>6. CASE Len(queue') > Len(queue)
    <3>1. IsJob(req) /\ synced /\ synced' = synced /\ queue' = Append(queue, req.arg)
      BY <2>2, <2>6 DEF IsJob
    <3>2. req.arg \in 1..Len(calls) /\ req.arg \in 1..MaxCalls /\ effects[req.arg] = 0
      <4>1. req.arg \in 1..Len(calls)
        BY <1>3, <1>4, <2>3, <3>1 DEF JobsUpTo
      <4>2. Len(calls) <= MaxCalls /\ Len(calls) \in Nat
        BY DEF LinkInv, CallsInv
      <4>3. req.arg \in 1..MaxCalls
        BY <4>1, <4>2, LinkAssumption
      <4> QED BY <1>7, <2>4, <3>1, <4>1, <4>3
    <3>3. queue'[Len(queue')] = req.arg
      <4>1. req.arg \in Jobs
        BY <3>2, LinkAssumption
      <4> QED BY <1>7, <3>1, <4>1
    <3>4. /\ effects'[req.arg] = 1
          /\ \A c \in 1..MaxCalls : c # req.arg => effects'[c] = effects[c]
      <4>1. effects' = [c \in 1..MaxCalls |-> IF c = req.arg THEN effects[c] + 1 ELSE effects[c]]
        BY <1>7, <2>6, <3>3 DEF HostStep
      <4> QED BY <1>7, <3>2, <4>1
    <3>5. ASSUME NEW i \in 1..Len(v), IsJob(v[i]), effects'[v[i].arg] = 1
          PROVE  v[i] = req /\ \A j \in 1..Len(v) : j < i => v[j] \in {Garbled, v[i]}
      <4>1. i + 1 \in 1..Len(w) /\ v[i] = w[i + 1] /\ 1 < i + 1
        BY <1>3
      <4>2. v[i].arg \in 1..Len(calls)
        BY <1>5, <3>5 DEF JobsUpTo
      <4>3. v[i].arg = req.arg
        <5>1. v[i].arg \in 1..MaxCalls
          <6>1. Len(calls) <= MaxCalls /\ Len(calls) \in Nat
            BY DEF LinkInv, CallsInv
          <6> QED BY <4>2, <6>1, LinkAssumption
        <5>2. v[i].arg # req.arg => effects[v[i].arg] = 1
          BY <1>7, <3>4, <3>5, <5>1
        <5> QED BY <2>5, <3>1, <3>5, <5>2
      <4>4. v[i] = req
        <5>1. 1 \in 1..Len(w) /\ IsJob(w[1]) /\ IsJob(w[i + 1]) /\ w[1].arg = w[i + 1].arg
          BY <1>3, <2>3, <3>1, <3>5, <4>1, <4>3
        <5>2. w[1] = w[i + 1]
          BY <1>4, <4>1, <5>1 DEF Together
        <5> QED BY <2>3, <4>1, <5>2
      <4>5. ASSUME NEW j \in 1..Len(v), j < i PROVE v[j] \in {Garbled, v[i]}
        <5>1. j + 1 \in 1..Len(w) /\ v[j] = w[j + 1] /\ 1 < j + 1 /\ j + 1 < i + 1
          BY <1>3, <4>5
        <5>2. IsJob(w[1]) /\ w[1] = w[i + 1] /\ 1 \in 1..Len(w)
          BY <1>3, <2>3, <3>1, <4>1, <4>4
        <5>3. w[j + 1] \in {Garbled, w[1]}
          BY <1>4, <4>1, <5>1, <5>2, BetweenCopies
        <5> QED BY <4>1, <5>1, <5>2, <5>3
      <4> QED BY <4>4, <4>5
    <3>6. DoneFirst(v, effects', synced', recentIds')
      BY <2>2, <3>5 DEF DoneFirst
    <3>7. \A c \in 1..MaxCalls : effects'[c] \in {0, 1} /\ (c > Len(calls) => effects'[c] = 0)
      BY <1>7, <3>2, <3>4
    <3>8. pc \notin {"idle", "command"} => effects'[Len(calls)] = 0
      <4> SUFFICES ASSUME pc \notin {"idle", "command"} PROVE effects'[Len(calls)] = 0
        OBVIOUS
      <4>1. JobsUpTo(toHost, Len(calls) - 1) /\ effects[Len(calls)] = 0
        BY <1>1, <1>6
      <4>2. req.arg \in 1..(Len(calls) - 1)
        <5>1. 1 \in 1..Len(toHost) /\ toHost[1] = req
          BY <1>1, HeadGoes DEF req
        <5> QED BY <3>1, <4>1, <5>1 DEF JobsUpTo
      <4>3. Len(calls) \in 1..MaxCalls /\ req.arg # Len(calls)
        BY <3>2, <4>2, WaveType DEF WaveOK, JobFrames
      <4> QED BY <1>7, <3>4, <4>1, <4>3
    <3> QED BY <1>1, <1>4, <1>5, <1>6, <3>6, <3>7, <3>8 DEF OnceInv
  <2>7. CASE ~(Len(queue') > Len(queue))
    <3>1. DoneFirst(v, effects, synced', recentIds')
      <4>1. ASSUME NEW i \in 1..Len(v), IsJob(v[i]), effects[v[i].arg] = 1
            PROVE  /\ \A j \in 1..Len(v) : j < i => v[j] \in {Garbled, v[i]}
                   /\ ~synced'
        <5>1. ~synced'
          BY <2>2, <2>5, <4>1 DEF IsJob
        <5>2. DoneFirst(v, effects, synced, recentIds)
          BY <1>4, <1>5
        <5> QED BY <4>1, <5>1, <5>2 DEF DoneFirst
      <4> QED BY <4>1 DEF DoneFirst
    <3> QED BY <1>8, <1>9, <2>7, <3>1
  <2> QED BY <2>6, <2>7
<1> QED BY <1>10, <1>11

\* The frame goes out once more.
LEMMA WaveRepeats ==
  ASSUME LinkInv, LinkInv', OnceInv, pc # "idle", pc' = pc, calls' = calls,
         UNCHANGED <<inflight, effects, synced, recentIds>>, toHost' = Written(inflight)
  PROVE  OnceInv'
<1>1. /\ toHost \in Seq(Frames) /\ inflight \in Frames /\ Len(calls) \in 1..MaxCalls
      /\ IsJob(inflight) => pc = "command" /\ inflight.arg = Len(calls)
  BY WaveType DEF WaveOK, JobFrames
<1>2. CASE toHost' = toHost
  BY <1>2 DEF OnceInv, Wave
<1>3. CASE toHost' = Append(toHost, inflight) /\ pc = "command"
  <2> DEFINE w == Append(toHost, inflight)
  <2>1. /\ Together(w) /\ DoneFirst(w, effects, synced, recentIds) /\ JobsUpTo(w, Len(calls))
    BY <1>3 DEF OnceInv, Wave
  <2>2. w \in Seq(Frames) /\ w # <<>> /\ w[Len(w)] = inflight
    BY <1>1
  <2>3. Wave' = Append(w, inflight)
    BY <1>3 DEF Wave
  <2> HIDE DEF w
  <2>4. Together(Wave') /\ DoneFirst(Wave', effects, synced, recentIds)
    BY <1>1, <2>1, <2>2, <2>3, AddAgain
  <2>5. JobsUpTo(Wave', Len(calls))
    BY <1>1, <2>1, <2>2, <2>3, AddJobs
  <2> QED BY <1>3, <2>4, <2>5 DEF OnceInv
<1>4. CASE toHost' = Append(toHost, inflight) /\ pc # "command"
  <2>1. ~IsJob(inflight) /\ Wave = toHost /\ Wave' = Append(toHost, inflight)
    BY <1>1, <1>4 DEF Wave
  <2>2. /\ Together(toHost) /\ DoneFirst(toHost, effects, synced, recentIds)
        /\ JobsUpTo(toHost, Len(calls)) /\ JobsUpTo(toHost, Len(calls) - 1)
    BY <1>4, <2>1 DEF OnceInv
  <2>3. Together(Wave') /\ DoneFirst(Wave', effects, synced, recentIds)
    BY <1>1, <2>1, <2>2, AddNew
  <2>4. JobsUpTo(Wave', Len(calls)) /\ JobsUpTo(toHost', Len(calls) - 1)
    BY <1>1, <1>4, <2>1, <2>2, AddJobs
  <2> QED BY <1>4, <2>3, <2>4 DEF OnceInv
<1> QED BY <1>2, <1>3, <1>4 DEF Written

\* The line stays as it is, or loses the frame that may be repeated.
LEMMA WaveStays ==
  ASSUME LinkInv, LinkInv', OnceInv, Len(calls') = Len(calls), toHost' = toHost,
         UNCHANGED <<effects, synced, recentIds>>,
         pc' = "idle" \/ UNCHANGED <<pc, inflight>>
  PROVE  OnceInv'
<1>1. /\ toHost \in Seq(Frames) /\ (pc = "command" => inflight \in Frames)
  BY WaveType DEF WaveOK, JobFrames
<1>2. Wave' = Wave \/ (Wave' = toHost /\ Wave \in {toHost, Append(toHost, inflight)})
  BY DEF Wave
<1>3. Len(Wave') + 0 <= Len(Wave) /\ \A i \in 1..Len(Wave') : Wave'[i] \in {Wave[i + 0], Garbled}
  <2>1. CASE Wave' = Wave
    <3>1. Len(Wave) \in Nat
      BY WaveType DEF WaveOK
    <3> QED BY <2>1, <3>1
  <2>2. CASE Wave' = toHost /\ Wave = toHost
    BY <1>1, <2>2
  <2>3. CASE Wave' = toHost /\ Wave = Append(toHost, inflight) /\ pc = "command"
    <3>1. /\ Len(Wave) = Len(toHost) + 1 /\ Len(toHost) \in Nat
          /\ \A i \in 1..Len(toHost) : Wave[i] = toHost[i]
      BY <1>1, <2>3, AppendPlaces
    <3> QED BY <2>3, <3>1
  <2>4. CASE pc # "command"
    <3>1. Wave = toHost /\ Wave' = toHost
      BY <2>4 DEF Wave
    <3> QED BY <2>2, <3>1
  <2> QED BY <1>2, <2>1, <2>2, <2>3, <2>4
<1>4. 0 \in Nat /\ pc' \in {pc, "idle"}
  OBVIOUS
<1> QED BY <1>3, <1>4, WaveShrinks

\* The endpoint restarts, or the cable is pulled: what was under way is lost.
LEMMA WaveIsLost ==
  ASSUME LinkInv, LinkInv', OnceInv, toHost' = <<>>, UNCHANGED <<pc, inflight, calls, effects>>,
         synced' = FALSE \/ UNCHANGED <<synced, recentIds>>
  PROVE  OnceInv'
<1>1. /\ toHost \in Seq(Frames) /\ (pc = "command" => inflight \in Frames)
  BY WaveType DEF WaveOK, JobFrames
<1> DEFINE d == Len(toHost)
<1>2. d \in Nat /\ Len(Wave') + d <= Len(Wave)
      /\ \A i \in 1..Len(Wave') : Wave'[i] \in {Wave[i + d], Garbled}
  <2>1. CASE pc = "command"
    <3>1. Wave' = Append(<<>>, inflight) /\ Wave = Append(toHost, inflight)
      BY <2>1 DEF Wave
    <3>2. Len(Wave') = 1 /\ Wave'[1] = inflight /\ Len(Wave) = d + 1 /\ Wave[1 + d] = inflight
      BY <1>1, <2>1, <3>1
    <3> QED BY <1>1, <3>2
  <2>2. CASE pc # "command"
    <3>1. Wave' = <<>> /\ Wave = toHost
      BY <2>2 DEF Wave
    <3> QED BY <1>1, <3>1
  <2> QED BY <2>1, <2>2
<1>3. Len(calls') = Len(calls) /\ pc' \in {pc, "idle"} /\ UNCHANGED effects
  OBVIOUS
<1> HIDE DEF d
<1> QED BY <1>2, <1>3, WaveShrinks

\* Noise hits the first frame.
LEMMA WaveIsGarbled ==
  ASSUME LinkInv, LinkInv', OnceInv, toHost # <<>>, toHost' = <<Garbled>> \o Tail(toHost),
         UNCHANGED <<pc, inflight, calls, effects, synced, recentIds>>
  PROVE  OnceInv'
<1>1. /\ toHost \in Seq(Frames) /\ (pc = "command" => inflight \in Frames)
  BY WaveType DEF WaveOK, JobFrames
<1>2. /\ Len(toHost') = Len(toHost) /\ toHost' \in Seq(Frames) /\ Len(toHost) \in Nat
      /\ \A i \in 1..Len(toHost) : toHost'[i] \in {toHost[i], Garbled}
  <2>1. Garbled \in Frames
    BY DEF Frames
  <2> QED BY <1>1, <2>1
<1>3. Len(Wave') + 0 <= Len(Wave) /\ \A i \in 1..Len(Wave') : Wave'[i] \in {Wave[i + 0], Garbled}
  <2>1. CASE pc = "command"
    <3>1. Wave' = Append(toHost', inflight) /\ Wave = Append(toHost, inflight) /\ inflight \in Frames
      BY <1>1, <2>1 DEF Wave
    <3>2. /\ Len(Wave) = Len(toHost) + 1 /\ Len(Wave') = Len(toHost) + 1
          /\ Wave[Len(toHost) + 1] = inflight /\ Wave'[Len(toHost) + 1] = inflight
          /\ \A i \in 1..Len(toHost) : Wave[i] = toHost[i] /\ Wave'[i] = toHost'[i]
      BY <1>1, <1>2, <3>1
    <3>3. \A i \in 1..(Len(toHost) + 1) : i \in 1..Len(toHost) \/ i = Len(toHost) + 1
      BY <1>2
    <3> QED BY <1>2, <3>2, <3>3
  <2>2. CASE pc # "command"
    <3>1. Wave' = toHost' /\ Wave = toHost
      BY <2>2 DEF Wave
    <3> QED BY <1>2, <3>1
  <2> QED BY <2>1, <2>2
<1>4. 0 \in Nat /\ pc' \in {pc, "idle"} /\ Len(calls') = Len(calls)
  OBVIOUS
<1> QED BY <1>3, <1>4, WaveShrinks

LEMMA OnceStep ==
  ASSUME LinkInv, LinkInv', OnceInv, [Next]_vars
  PROVE  OnceInv'
<1> USE DEF hostVars, linkVars, cacheVars, historyVars
<1>0. Len(calls) \in Nat
  BY DEF LinkInv, CallsInv
<1>1. CASE Calls
  <2>1. /\ Len(calls') = Len(calls) + 1 /\ pc = "idle" /\ pc' # "idle"
        /\ toHost' = Written(inflight') /\ UNCHANGED <<effects, synced, recentIds>>
    BY <1>1, CallsAre, CallStep
  <2>2. Len(calls') \in 1..MaxCalls
    BY <2>1, WaveTypeNext DEF WaveOK, JobFrames
  <2>3. effects[Len(calls')] = 0 /\ Len(calls') > Len(calls)
    BY <1>0, <2>1, <2>2 DEF OnceInv
  <2>4. JobsUpTo(toHost, Len(calls') - 1)
    <3>1. Len(calls') - 1 = Len(calls)
      BY <1>0, <2>1
    <3> QED BY <2>1, <3>1 DEF OnceInv, Wave
  <2>5. Len(calls) <= Len(calls')
    BY <1>0, <2>1
  <2> QED BY <2>1, <2>3, <2>4, <2>5, WaveSends
<1>2. CASE Answered
  <2>1. /\ pc # "idle" /\ Len(calls') = Len(calls)
        /\ UNCHANGED <<effects, synced, recentIds>>
        /\ \/ /\ pc' # "idle" /\ toHost' = Written(inflight') /\ Rank(pc) < Rank(pc')
           \/ /\ pc' = "idle" /\ UNCHANGED <<inflight, toHost>>
    BY <1>2, AnsweredStep
  <2>2. CASE pc' # "idle" /\ toHost' = Written(inflight') /\ Rank(pc) < Rank(pc')
    <3>1. pc # "command"
      <4>1. Rank(pc') \in 0..9
        BY RankFacts DEF LinkInv, FrameInv
      <4> QED BY <2>2, <4>1 DEF Rank
    <3>2. JobsUpTo(toHost, Len(calls') - 1) /\ effects[Len(calls')] = 0
      BY <2>1, <3>1 DEF OnceInv
    <3>3. Len(calls) <= Len(calls')
      BY <1>0, <2>1
    <3> QED BY <2>1, <2>2, <3>1, <3>2, <3>3, WaveSends
  <2>3. CASE pc' = "idle" /\ UNCHANGED <<inflight, toHost>>
    BY <2>1, <2>3, WaveStays
  <2> QED BY <2>1, <2>2, <2>3
<1>3. CASE ParseError
  <2>1. /\ pc' = "idle" /\ Len(calls') = Len(calls) /\ toHost' = toHost
        /\ UNCHANGED <<effects, synced, recentIds>>
    BY <1>3, ParseErrorStep
  <2> QED BY <2>1, WaveStays
<1>4. CASE Timeout
  <2>1. /\ pc # "idle" /\ Len(calls') = Len(calls)
        /\ UNCHANGED <<effects, inflight, synced, recentIds>>
        /\ \/ pc' = pc /\ calls' = calls /\ toHost' = Written(inflight)
           \/ pc' = "idle" /\ toHost' = toHost
    BY <1>4, TimeoutStep
  <2> QED BY <2>1, WaveRepeats, WaveStays
<1>5. CASE HostStep
  BY <1>5, WaveServes
<1>6. CASE HostTick \/ Replug
  <2>1. toHost' = toHost /\ UNCHANGED <<pc, inflight, calls, effects, synced, recentIds>>
    BY <1>6 DEF HostTick, Tick, Replug, sessionVars, frameVars, wireVars
  <2> QED BY <2>1, WaveStays
<1>7. CASE HostReset
  <2>1. toHost' = <<>> /\ UNCHANGED <<pc, inflight, calls, effects>> /\ synced' = FALSE
    BY <1>7 DEF HostReset, sessionVars, frameVars
  <2> QED BY <2>1, WaveIsLost
<1>8. CASE Unplug
  <2>1. toHost' \in {toHost, <<>>} /\ UNCHANGED <<pc, inflight, calls, effects, synced, recentIds>>
    BY <1>8 DEF Unplug, sessionVars, frameVars
  <2> QED BY <2>1, WaveIsLost, WaveStays
<1>9. CASE Garble
  <2>1. /\ toHost' = toHost \/ (toHost # <<>> /\ toHost' = <<Garbled>> \o Tail(toHost))
        /\ UNCHANGED <<pc, inflight, calls, effects, synced, recentIds>>
    BY <1>9 DEF Garble, sessionVars, frameVars
  <2> QED BY <2>1, WaveIsGarbled, WaveStays
<1>10. CASE Reopen
  <2>1. pc' = "idle" /\ toHost' = toHost /\ UNCHANGED <<calls, effects, synced, recentIds>>
    BY <1>10 DEF Reopen, SessionStart
  <2> QED BY <2>1, WaveStays
<1>11. CASE UNCHANGED vars
  <2>1. toHost' = toHost /\ UNCHANGED <<pc, inflight, calls, effects, synced, recentIds>>
    BY <1>11 DEF vars, sessionVars, frameVars, wireVars
  <2> QED BY <2>1, WaveStays
<1> QED BY <1>1, <1>2, <1>3, <1>4, <1>5, <1>6, <1>7, <1>8, <1>9, <1>10, <1>11 DEF Next, Calls

\* A retried, delayed or stale SCHED frame is never executed again: one
\* send() puts its job into the endpoint's queue at most once, across lost
\* answers, noise, restarts of the endpoint and new transports on the port.
THEOREM JobsEnqueuedAtMostOnce == Spec => []AtMostOnce
<1>1. Init => OnceInv
  <2> SUFFICES ASSUME Init PROVE OnceInv
    OBVIOUS
  <2>1. /\ Wave = <<>> /\ calls = <<>> /\ effects = [c \in 1..MaxCalls |-> 0] /\ pc = "idle"
    BY DEF Init, Wave
  <2> QED BY <2>1 DEF OnceInv, Together, DoneFirst, JobsUpTo
<1>2. LinkInv /\ LinkInv' /\ OnceInv /\ [Next]_vars => OnceInv'
  BY OnceStep
<1>3. OnceInv => AtMostOnce
  BY DEF OnceInv, AtMostOnce
<1> QED BY <1>1, <1>2, <1>3, LinkInvAlways, PTL DEF Spec

-----------------------------------------------------------------------------
(* What is reported, and what is remembered: the invariant.                *)

\* No readline gave up on an answer under way, and neither end restarted.
Quiet == late = 0 /\ sessions = 1 /\ hostResets = 0

\* The endpoint has answered the frame in flight, and with this.
Served == inflight.id \in DOMAIN recentResults
Filed  == recentResults[inflight.id]
Acked  == Served /\ Filed.status = "ACK"

\* One frame or one line is under way, none between two calls.
OneOut ==
  /\ pc = "idle" => toHost = <<>> /\ toClient = <<>>
  /\ toHost = <<>> \/ toClient = <<>>
  /\ toHost # <<>> => toHost \in {<<inflight>>, <<Garbled>>}
  /\ toClient # <<>> => \/ toClient \in {<<Garbled>>, <<MalformedNack>>}
                        \/ Served /\ toClient = <<Filed>>

NoNoise ==
  garbles = 0 => toHost # <<Garbled>> /\ toClient \notin {<<Garbled>>, <<MalformedNack>>}

\* On a cable that was never pulled a frame is served once at most.
NoLoss ==
  unplugs = 0 =>
    /\ plugged
    /\ pc # "idle" => toHost # <<>> \/ toClient # <<>>
    /\ pc # "idle" /\ (toHost # <<>> \/ toClient = <<MalformedNack>>) => ~Served

\* An accepted frame's answer on file describes the endpoint as it is.
FiledInv ==
  /\ DOMAIN recentResults \subseteq 1..(nextId - 1) /\ (pc # "idle" => nextId > 1)
  /\ pc # "idle" /\ Acked => Filed.mode = mode /\ Filed.depth = Len(queue)

EffectInv ==
  pc # "idle" =>
    effects[Len(calls)] = IF IsJob(inflight) /\ Acked THEN 1 ELSE 0

WireAgree == OneOut /\ NoNoise /\ NoLoss /\ FiledInv /\ EffectInv

Reported(c) ==
  calls[c].cmd = "SCHED" =>
    /\ calls[c].result = "ACK" => effects[c] = 1
    /\ calls[c].result \in {"NACK_QUEUE_FULL", "NACK_BUSY"} => effects[c] = 0
    /\ calls[c].result = "NACK_SAFE" /\ LossOrNoise => effects[c] = 0

Mirrored == expectedMode = mode /\ lastDepth = Len(queue)

\* The transport's picture is right but for the frame whose answer is due.
MirrorPart ==
  LossOrNoise /\ ~syncRequired =>
    /\ pc \in {"idle", "beat"} \/ (pc = "command" /\ ~Acked) => Mirrored
    /\ pc = "command" /\ inflight.cmd = "RESET_QUEUE" => expectedMode = mode

SyncInv ==
  /\ ~handshakeComplete => syncRequired
  /\ pc \notin {"idle", "beat", "command"} => syncRequired
  /\ pc = "command" => ~syncRequired
  /\ pc \notin {"idle", "hello", "hello_after_beat", "hello_after_state"} => handshakeComplete

QuietInv ==
  Quiet => WireAgree /\ MirrorPart /\ \A c \in 1..Len(calls) : Reported(c)

-----------------------------------------------------------------------------
(* The endpoint's first answer to a frame.                                 *)

LEMMA AckAnswer ==
  ASSUME NEW m, NEW q, NEW c, NEW l, NEW id
  PROVE  /\ AckFor(id, m, q, c, l).status = "ACK" /\ AckFor(id, m, q, c, l).mode = m
         /\ AckFor(id, m, q, c, l).depth = Len(q)
BY DEF AckFor

LEMMA FreshAnswer ==
  ASSUME HostInv, NEW req \in Requests, Fresh(req), HandleRequest(req)
  PROVE  /\ \A id \in DOMAIN recentResults' : id \in DOMAIN recentResults \/ id = req.id
         /\ req.id \in DOMAIN recentResults' /\ recentResults'[req.id] = reply'
         /\ reply' \in Acks \cup Nacks
         /\ reply'.status = "ACK" => reply'.mode = mode' /\ reply'.depth = Len(queue')
         /\ reply'.status # "ACK" => UNCHANGED <<mode, queue>>
         /\ req.cmd \in {"HELLO", "HEARTBEAT", "GET_STATE"} => UNCHANGED <<mode, queue>>
         /\ req.cmd \in {"RESET_QUEUE", "SCHED"} => mode' = mode
         /\ req.cmd = "SCHED" /\ reply'.status = "ACK" => queue' = Append(queue, req.arg)
<1>1. PICK a : Answer(req.id, a)
  BY RequestAnswers
<1>2. /\ \A id \in DOMAIN recentResults' : id \in DOMAIN recentResults \/ id = req.id
  BY <1>1 DEF Answer, Remember
<1>3. /\ req.id \in DOMAIN recentResults' /\ recentResults'[req.id] = reply'
      /\ reply' \in Acks \cup Nacks
  BY AnswerOnFile
<1> DEFINE Told ==
      /\ reply'.status = "ACK" => reply'.mode = mode' /\ reply'.depth = Len(queue')
      /\ reply'.status # "ACK" => UNCHANGED <<mode, queue>>
      /\ req.cmd \in {"HELLO", "HEARTBEAT", "GET_STATE"} => UNCHANGED <<mode, queue>>
      /\ req.cmd \in {"RESET_QUEUE", "SCHED"} => mode' = mode
      /\ req.cmd = "SCHED" /\ reply'.status = "ACK" => queue' = Append(queue, req.arg)
<1>4. ASSUME NEW code, Reject(req, code) PROVE Told
  <2>1. reply'.status = "NACK" /\ UNCHANGED <<mode, queue>>
    BY <1>4 DEF Reject, Answer, NackFor, controlVars
  <2> QED BY <2>1
<1>5. BadArgs(req) => Told
  BY <1>4 DEF BadArgs
<1>6. ASSUME NEW m, NEW q, NEW c, NEW l, reply' = AckFor(req.id, m, q, c, l),
             mode' = m, queue' = q
      PROVE  /\ reply'.status = "ACK" /\ reply'.mode = mode' /\ reply'.depth = Len(queue')
  BY <1>6, AckAnswer
<1>s. SUFFICES Told
  BY <1>2, <1>3
<1> HIDE DEF Told
<1>7. CASE HandleBusy(req) \/ HandleUnknown(req)
  BY <1>4, <1>7 DEF HandleBusy, HandleUnknown
<1>8. CASE Hello(req)
  <2>1. CASE ~BadArgs(req)
    <3>1. /\ reply' = AckFor(req.id, mode, queue, FALSE, "SYNCING") /\ UNCHANGED <<mode, queue>>
          /\ req.cmd = "HELLO"
      BY <1>8, <2>1 DEF Hello, Answer, SetQueue, Dispatch
    <3> QED BY <1>6, <3>1 DEF Told
  <2> QED BY <1>5, <2>1
<1>9. CASE Heartbeat(req)
  <2>1. CASE ~BadArgs(req) /\ ~Reject(req, BadTransition)
    <3>1. /\ reply' = AckFor(req.id, mode, queue, FALSE, "READY") /\ UNCHANGED <<mode, queue>>
          /\ req.cmd = "HEARTBEAT"
      BY <1>9, <2>1 DEF Heartbeat, Answer, SetQueue, Dispatch
    <3> QED BY <1>6, <3>1 DEF Told
  <2> QED BY <1>4, <1>5, <2>1
<1>10. CASE SetMode(req)
  <2>1. CASE ~BadArgs(req) /\ ~Reject(req, BadTransition)
    <3>1. \E q, c : /\ reply' = AckFor(req.id, req.arg, q, c, RefreshedLink)
                    /\ mode' = req.arg /\ queue' = q
      BY <1>10, <2>1 DEF SetMode, Answer, SetQueue
    <3>2. req.cmd = "SET_MODE"
      BY <1>10 DEF SetMode, Dispatch
    <3> QED BY <1>6, <3>1, <3>2 DEF Told
  <2> QED BY <1>4, <1>5, <2>1
<1>11. CASE Sched(req)
  <2>1. CASE ~BadArgs(req) /\ \A code : ~Reject(req, code)
    <3>1. /\ reply' = AckFor(req.id, mode, Append(queue, req.arg), FALSE, RefreshedLink)
          /\ mode' = mode /\ queue' = Append(queue, req.arg) /\ req.cmd = "SCHED"
      BY <1>11, <2>1 DEF Sched, Answer, SetQueue, Dispatch
    <3> QED BY <1>6, <3>1 DEF Told
  <2> QED BY <1>4, <1>5, <2>1
<1>12. CASE GetState(req)
  <2>1. CASE ~BadArgs(req)
    <3>1. /\ reply' = AckFor(req.id, mode, queue, FALSE, RefreshedLink) /\ UNCHANGED <<mode, queue>>
          /\ req.cmd = "GET_STATE"
      BY <1>12, <2>1 DEF GetState, Answer, SetQueue, Dispatch
    <3> QED BY <1>6, <3>1 DEF Told
  <2> QED BY <1>5, <2>1
<1>13. CASE ResetQueue(req)
  <2>1. CASE ~BadArgs(req)
    <3>1. /\ reply' = AckFor(req.id, mode, <<>>, queue # <<>>, RefreshedLink)
          /\ mode' = mode /\ queue' = <<>> /\ req.cmd = "RESET_QUEUE"
      BY <1>13, <2>1 DEF ResetQueue, Answer, SetQueue, Dispatch
    <3> QED BY <1>6, <3>1 DEF Told
  <2> QED BY <1>5, <2>1
<1> QED BY <1>7, <1>8, <1>9, <1>10, <1>11, <1>12, <1>13 DEF HandleRequest, HandleDuplicate, Fresh

-----------------------------------------------------------------------------
(* When a synchronisation is pending.                                      *)

LEMMA CallSyncs ==
  ASSUME SyncInv, NEW cmd, NEW arg, Call(cmd, arg)
  PROVE  SyncInv'
<1> DEFINE call == [cmd |-> cmd, arg |-> arg, result |-> "pending"]
<1>1. pc = "idle" /\ UNCHANGED <<handshakeComplete, syncRequired>>
  BY DEF Call
<1>2. CASE handshakeComplete
  <2>1. Proceed(call, sentAge' >= 1, syncRequired)
    BY <1>2 DEF Call
  <2>2. pc' = "beat" \/ (pc' = "state" /\ syncRequired) \/ (pc' = "command" /\ ~syncRequired)
    BY <2>1 DEF Proceed, Send
  <2> QED BY <1>1, <1>2, <2>2 DEF SyncInv
<1>3. CASE ~handshakeComplete
  <2>1. pc' = "hello"
    BY <1>3 DEF Call, SayHello, Send
  <2> QED BY <1>1, <1>3, <2>1 DEF SyncInv
<1> QED BY <1>2, <1>3

\* The next frame is asked for while a synchronisation is pending; ...
Asking == pc' \notin {"idle", "command"} /\ syncRequired'

\* ... or it is the caller's, and an accepted answer shows the state; ...
Asked ==
  /\ pc' = "command" /\ pc \notin {"idle", "command"} /\ ~syncRequired' /\ isAck
  /\ lastDepth' = answer.depth
  /\ \/ expectedMode' = answer.mode
     \/ pc = "beat" /\ ~syncRequired /\ expectedMode' = expectedMode

\* ... or the call fails with the synchronisation still pending; ...
Failing == pc' = "idle" /\ Finish("raised") /\ syncRequired'

\* ... or it reports the answer to the caller's frame.
Reporting ==
  /\ pc = "command" /\ Finish(BenchResult) /\ ~syncRequired'
  /\ expectedMode' = (IF isAck /\ inflight.cmd \in {"SET_MODE", "SCHED"}
                      THEN answer.mode ELSE expectedMode)
  /\ lastDepth' = (IF isAck THEN answer.depth ELSE lastDepth)

LEMMA AnswerSyncs ==
  ASSUME FrameInv, SyncInv, Answered
  PROVE  SyncInv' /\ (Asking \/ Asked \/ Failing \/ Reporting)
<1> DEFINE Goal == SyncInv' /\ (Asking \/ Asked \/ Failing \/ Reporting)
<1>1. ASSUME NEW label \in {"hello", "hello_after_beat", "hello_after_state"}, NEW age,
             TakeHello(label, age)
      PROVE  Goal
  <2>1. pc = label /\ syncRequired
    BY <1>1 DEF TakeHello, Take, SyncInv
  <2>2. CASE RaiseSafe /\ UNCHANGED <<handshakeComplete, sentAge, syncRequired>>
    BY <2>1, <2>2 DEF RaiseSafe, Finish, Failing, SyncInv
  <2>3. CASE /\ handshakeComplete' = TRUE /\ syncRequired' = TRUE
             /\ CASE label = "hello"             -> Proceed(ThisCall, TRUE, TRUE)
                  [] label = "hello_after_beat"  -> Proceed(ThisCall, FALSE, TRUE)
                  [] label = "hello_after_state" -> Send("state_again", "GET_STATE", NoArg)
    <3>1. pc' \in {"beat", "state", "state_again"}
      BY <2>3 DEF Proceed, Send
    <3> QED BY <2>3, <3>1 DEF Asking, SyncInv
  <2> QED BY <1>1, <2>2, <2>3 DEF TakeHello
<1>2. ASSUME TakeBeat PROVE Goal
  <2>1. /\ pc = "beat" /\ inflight.cmd = "HEARTBEAT"
        /\ lastDepth' = (IF isAck THEN answer.depth ELSE lastDepth)
        /\ expectedMode' = expectedMode
    BY <1>2 DEF TakeBeat, Take, FrameInv, Body
  <2>2. CASE /\ isAck /\ Proceed(ThisCall, FALSE, syncRequired)
             /\ UNCHANGED <<handshakeComplete, syncRequired>>
    <3>1. (pc' = "state" /\ syncRequired) \/ (pc' = "command" /\ ~syncRequired)
      BY <2>2 DEF Proceed, Send
    <3> QED BY <2>1, <2>2, <3>1 DEF SyncInv, Asking, Asked
  <2>3. CASE syncRequired' = TRUE /\ SayHello("hello_after_beat")
    BY <2>3 DEF SayHello, Send, Asking, SyncInv
  <2> QED BY <1>2, <2>2, <2>3 DEF TakeBeat
<1>3. ASSUME NEW label \in {"state", "state_again"}, TakeState(label) PROVE Goal
  <2>1. /\ pc = label /\ inflight.cmd = "GET_STATE" /\ syncRequired /\ handshakeComplete
        /\ lastDepth' = (IF isAck THEN answer.depth ELSE lastDepth)
        /\ expectedMode' = expectedMode
    BY <1>3 DEF TakeState, Take, FrameInv, Body, SyncInv
  <2>2. CASE /\ isAck /\ answer.mode = expectedMode /\ syncRequired' = FALSE
             /\ Send("command", ThisCall.cmd, ThisCall.arg)
             /\ UNCHANGED handshakeComplete
    BY <2>1, <2>2 DEF Send, Asked, SyncInv
  <2>3. CASE /\ IF answer.depth > 0 THEN Send("reset", "RESET_QUEUE", NoArg)
                                    ELSE Send("set_mode", "SET_MODE", expectedMode)
             /\ UNCHANGED <<handshakeComplete, syncRequired>>
    BY <2>1, <2>3 DEF Send, Asking, SyncInv
  <2>4. CASE SayHello("hello_after_state") /\ UNCHANGED syncRequired
    BY <2>1, <2>4 DEF SayHello, Send, Asking, SyncInv
  <2>5. CASE RaiseSafe /\ UNCHANGED <<handshakeComplete, syncRequired>>
    BY <2>1, <2>5 DEF RaiseSafe, Finish, Failing, SyncInv
  <2> QED BY <1>3, <2>2, <2>3, <2>4, <2>5 DEF TakeState
<1>4. ASSUME TakeReset PROVE Goal
  <2>1. /\ pc = "reset" /\ syncRequired /\ syncRequired' /\ handshakeComplete
        /\ UNCHANGED handshakeComplete
    BY <1>4 DEF TakeReset, Take, SyncInv
  <2>2. CASE Send("set_mode", "SET_MODE", expectedMode)
    BY <2>1, <2>2 DEF Send, Asking, SyncInv
  <2>3. CASE RaiseSafe
    BY <2>1, <2>3 DEF RaiseSafe, Finish, Failing, SyncInv
  <2> QED BY <1>4, <2>2, <2>3 DEF TakeReset
<1>5. ASSUME TakeSetMode PROVE Goal
  <2>1. /\ pc = "set_mode" /\ inflight.cmd = "SET_MODE" /\ syncRequired
        /\ handshakeComplete /\ UNCHANGED handshakeComplete
    BY <1>5 DEF TakeSetMode, Take, FrameInv, Body, SyncInv
  <2>2. CASE isAck /\ syncRequired' = FALSE /\ Send("command", ThisCall.cmd, ThisCall.arg)
    <3>1. lastDepth' = answer.depth /\ expectedMode' = answer.mode
      BY <1>5, <2>1, <2>2 DEF TakeSetMode, Take
    <3> QED BY <2>1, <2>2, <3>1 DEF Send, Asked, SyncInv
  <2>3. CASE RaiseSafe /\ UNCHANGED syncRequired
    BY <2>1, <2>3 DEF RaiseSafe, Finish, Failing, SyncInv
  <2> QED BY <1>5, <2>2, <2>3 DEF TakeSetMode
<1>6. ASSUME TakeCommand PROVE Goal
  <2>1. /\ pc = "command" /\ ~syncRequired /\ Finish(BenchResult)
        /\ UNCHANGED <<handshakeComplete, syncRequired>>
        /\ expectedMode' = (IF isAck /\ inflight.cmd \in {"SET_MODE", "SCHED"}
                            THEN answer.mode ELSE expectedMode)
        /\ lastDepth' = (IF isAck THEN answer.depth ELSE lastDepth)
    BY <1>6 DEF TakeCommand, Take, SyncInv
  <2>2. pc' = "idle" /\ handshakeComplete
    BY <2>1 DEF Finish, SyncInv
  <2> QED BY <2>1, <2>2 DEF Reporting, SyncInv
<1> QED BY <1>1, <1>2, <1>3, <1>4, <1>5, <1>6 DEF Answered

-----------------------------------------------------------------------------
(* The frame in flight and its answer.                                     *)

\* Who is on the other end of a line, when nothing gave up early.
LEMMA AnswerIs ==
  ASSUME LinkInv, WireAgree, toClient # <<>>
  PROVE  /\ pc # "idle" /\ toHost = <<>> /\ Tail(toClient) = <<>>
         /\ answer \in {Garbled, MalformedNack} \/ (Served /\ answer = Filed)
         /\ isAck => Acked /\ answer = Filed
         /\ answer = MalformedNack => garbles # 0 /\ (unplugs = 0 => ~Served)
<1>1. /\ pc # "idle" /\ toHost = <<>>
      /\ toClient \in {<<Garbled>>, <<MalformedNack>>} \/ (Served /\ toClient = <<Filed>>)
  BY DEF WireAgree, OneOut
<1>2. PICK line : toClient = <<line>> /\ (line \in {Garbled, MalformedNack} \/ (Served /\ line = Filed))
  BY <1>1
<1>3. Tail(toClient) = <<>> /\ answer = line
  BY <1>2 DEF answer
<1>4. ~isAck \/ (Served /\ answer = Filed)
  BY <1>2, <1>3 DEF isAck, Garbled, MalformedNack, NackFor
<1>5. answer = MalformedNack => toClient = <<MalformedNack>>
  BY <1>2, <1>3
<1>6. answer = MalformedNack => garbles # 0 /\ (unplugs = 0 => ~Served)
  BY <1>1, <1>5 DEF WireAgree, NoNoise, NoLoss
<1> QED BY <1>1, <1>2, <1>3, <1>4, <1>6 DEF isAck, Acked

LEMMA AgreeSends ==
  ASSUME WireAgree, pc' # "idle", toHost = <<>>, toClient' = <<>>,
         toHost' = Written(inflight'), inflight'.id = nextId, nextId' = nextId + 1,
         nextId \in Nat \ {0},
         UNCHANGED <<mode, queue, recentResults, plugged, unplugs, garbles, effects>>,
         effects[Len(calls')] = 0, inflight' # Garbled
  PROVE  WireAgree' /\ ~Served' /\ ~Acked'
<1>1. /\ nextId \notin DOMAIN recentResults /\ nextId' > 1
      /\ DOMAIN recentResults \subseteq 1..(nextId' - 1)
  BY DEF WireAgree, FiledInv
<1>2. ~Served'
  BY <1>1 DEF Served
<1>3. ~Acked'
  BY <1>2 DEF Acked
<1>4. toHost' = <<>> \/ (plugged /\ toHost' = <<inflight'>>)
  BY DEF Written
<1>5. OneOut' /\ NoNoise'
  BY <1>4 DEF OneOut, NoNoise
<1>6. NoLoss'
  BY <1>2, <1>4 DEF NoLoss, WireAgree, Written
<1>7. FiledInv' /\ EffectInv'
  BY <1>1, <1>3 DEF FiledInv, EffectInv
<1> QED BY <1>2, <1>3, <1>5, <1>6, <1>7 DEF WireAgree

LEMMA AgreeEnds ==
  ASSUME WireAgree, pc' = "idle", toHost' = <<>>, toClient' = <<>>,
         UNCHANGED <<recentResults, nextId, plugged, unplugs, garbles>>
  PROVE  WireAgree'
BY DEF WireAgree, OneOut, NoNoise, NoLoss, FiledInv, EffectInv

\* The calls before the last one stay as they were reported.
LEMMA StillReported ==
  ASSUME NEW c, Reported(c), calls'[c] = calls[c], effects'[c] = effects[c],
         LossOrNoise' => LossOrNoise
  PROVE  Reported(c)'
BY DEF Reported

\* A call that is pending, or has failed, reports nothing.
LEMMA NothingReported ==
  ASSUME NEW c, calls'[c].result \in {"pending", "raised"}
  PROVE  Reported(c)'
BY DEF Reported

LEMMA QuietCall ==
  ASSUME LinkInv, LinkInv', OnceInv, SyncInv, QuietInv, Calls
  PROVE  SyncInv' /\ QuietInv'
<1>1. PICK cmd, arg :
        /\ cmd \in {"SCHED", "SET_MODE", "RESET_QUEUE"} /\ Call(cmd, arg)
        /\ Asks([cmd |-> cmd, arg |-> arg, result |-> "pending"], Len(calls) + 1)
  BY CallsAre
<1>2. SyncInv'
  BY <1>1, CallSyncs
<1>3. /\ Len(calls') = Len(calls) + 1 /\ \A c \in 1..Len(calls) : calls'[c] = calls[c]
      /\ pc = "idle" /\ pc' # "idle" /\ toHost' = Written(inflight')
      /\ inflight'.id = nextId /\ nextId' = nextId + 1
      /\ UNCHANGED <<hostVars, syncRequired, mirrorVars, toClient, plugged, budgetVars, historyVars>>
  BY <1>1, CallStep
<1>4. UNCHANGED <<mode, queue, recentResults, plugged, unplugs, garbles, sessions, hostResets,
                  late, effects, syncRequired, expectedMode, lastDepth, toClient>>
  BY <1>3 DEF hostVars, controlVars, cacheVars, budgetVars, historyVars, mirrorVars
<1> SUFFICES ASSUME Quiet' PROVE WireAgree' /\ MirrorPart' /\ \A c \in 1..Len(calls') : Reported(c)'
  BY <1>2 DEF QuietInv
<1>5. WireAgree /\ MirrorPart /\ \A c \in 1..Len(calls) : Reported(c)
  BY <1>4 DEF Quiet, QuietInv
<1>6. Len(calls) \in Nat /\ Len(calls') \in 1..MaxCalls
  BY <1>3, WaveTypeNext DEF LinkInv, CallsInv, WaveOK, JobFrames
<1>7. effects[Len(calls')] = 0
  BY <1>3, <1>6 DEF OnceInv
<1>8. nextId \in Nat \ {0} /\ inflight' # Garbled
  BY <1>3 DEF LinkInv, FrameInv, Requests, Garbled
<1>9. WireAgree' /\ ~Acked'
  <2>1. toHost = <<>> /\ toClient' = <<>>
    BY <1>3, <1>5 DEF WireAgree, OneOut
  <2> QED BY <1>3, <1>4, <1>5, <1>7, <1>8, <2>1, AgreeSends
<1>10. MirrorPart'
  BY <1>3, <1>4, <1>5 DEF MirrorPart, Mirrored, LossOrNoise
<1>11. ASSUME NEW c \in 1..Len(calls') PROVE Reported(c)'
  <2>1. CASE c \in 1..Len(calls)
    BY <1>3, <1>4, <1>5, <2>1, StillReported DEF LossOrNoise
  <2>2. CASE c = Len(calls')
    <3>1. calls'[c].result = "pending"
      BY <1>3, <1>6, <2>2 DEF LinkInv, CallsInv
    <3> QED BY <3>1, NothingReported
  <2> QED BY <1>3, <1>6, <2>1, <2>2
<1> QED BY <1>9, <1>10, <1>11

\* The end of a call writes its result, and nothing else of it.
LEMMA FinishResult ==
  ASSUME CallsInv, pc # "idle", NEW result \in Results, Finish(result)
  PROVE  /\ calls'[Len(calls)].result = result /\ calls'[Len(calls)].cmd = ThisCall.cmd
         /\ pc' = "idle" /\ toHost' = toHost
<1>1. Len(calls) \in 1..Len(calls) /\ calls[Len(calls)] \in CallRecords
  BY DEF CallsInv
<1> QED BY <1>1 DEF Finish, CallRecords, CallsInv, ThisCall

LEMMA QuietAnswered ==
  ASSUME LinkInv, LinkInv', OnceInv, SyncInv, QuietInv, Answered
  PROVE  SyncInv' /\ QuietInv'
<1>1. SyncInv' /\ (Asking \/ Asked \/ Failing \/ Reporting)
  BY AnswerSyncs DEF LinkInv
<1>2. /\ Len(calls') = Len(calls) /\ pc # "idle"
      /\ UNCHANGED <<hostVars, plugged, budgetVars, historyVars>>
      /\ toClient # <<>> /\ toClient' = Tail(toClient)
      /\ \/ /\ pc' # "idle" /\ calls' = calls /\ toHost' = Written(inflight')
            /\ inflight'.id = nextId /\ nextId' = nextId + 1 /\ Rank(pc) < Rank(pc')
         \/ /\ pc' = "idle" /\ UNCHANGED <<inflight, nextId, toHost>>
            /\ \A c \in 1..(Len(calls) - 1) : calls'[c] = calls[c]
  BY AnsweredStep
<1>3. UNCHANGED <<mode, queue, recentResults, plugged, unplugs, garbles, sessions, hostResets,
                  late, effects>>
  BY <1>2 DEF hostVars, controlVars, cacheVars, budgetVars, historyVars
<1> SUFFICES ASSUME Quiet' PROVE WireAgree' /\ MirrorPart' /\ \A c \in 1..Len(calls') : Reported(c)'
  BY <1>1 DEF QuietInv
<1>4. WireAgree /\ MirrorPart /\ \A c \in 1..Len(calls) : Reported(c)
  BY <1>3 DEF Quiet, QuietInv
<1>5. /\ toHost = <<>> /\ toClient' = <<>>
      /\ answer \in {Garbled, MalformedNack} \/ (Served /\ answer = Filed)
      /\ isAck => Acked /\ answer = Filed
      /\ answer = MalformedNack => garbles # 0 /\ (unplugs = 0 => ~Served)
  BY <1>2, <1>4, AnswerIs
<1>6. Len(calls) \in 1..MaxCalls
  BY <1>2, WaveType DEF WaveOK, JobFrames
<1>7. CASE pc' # "idle"
  <2>1. pc # "command"
    <3>1. Rank(pc') \in 0..9 /\ Rank(pc) < Rank(pc')
      BY <1>2, <1>7, RankFacts DEF LinkInv, FrameInv
    <3> QED BY <3>1 DEF Rank
  <2>2. effects[Len(calls')] = 0
    BY <1>2, <2>1 DEF OnceInv
  <2>3. nextId \in Nat \ {0} /\ inflight' # Garbled
    BY <1>7 DEF LinkInv, FrameInv, Requests, Garbled
  <2>4. WireAgree' /\ ~Acked'
    BY <1>2, <1>3, <1>4, <1>5, <1>7, <2>2, <2>3, AgreeSends
  <2>5. \A c \in 1..Len(calls') : Reported(c)'
    BY <1>2, <1>3, <1>4, <1>7, StillReported DEF LossOrNoise
  <2>6. CASE Asking
    BY <2>4, <2>5, <2>6 DEF Asking, MirrorPart
  <2>7. CASE Asked
    <3>1. Filed.mode = mode /\ Filed.depth = Len(queue) /\ answer = Filed
      BY <1>2, <1>4, <1>5, <2>7 DEF WireAgree, FiledInv, Asked
    <3>2. LossOrNoise' /\ pc = "beat" /\ ~syncRequired => expectedMode = mode
      BY <1>3, <1>4 DEF MirrorPart, Mirrored, LossOrNoise
    <3>3. LossOrNoise' => expectedMode' = mode' /\ lastDepth' = Len(queue')
      BY <1>3, <2>7, <3>1, <3>2 DEF Asked
    <3>4. MirrorPart'
      BY <3>3 DEF MirrorPart, Mirrored
    <3> QED BY <2>4, <2>5, <3>4
  <2> QED BY <1>1, <1>7, <2>6, <2>7 DEF Failing, Reporting, Finish
<1>8. CASE pc' = "idle"
  <2>1. WireAgree'
    BY <1>2, <1>3, <1>4, <1>5, <1>8, AgreeEnds
  <2>2. \A c \in 1..Len(calls) : c # Len(calls) => Reported(c)'
    <3>1. \A c \in 1..Len(calls) : c # Len(calls) => c \in 1..(Len(calls) - 1)
      BY <1>6
    <3> QED BY <1>2, <1>3, <1>4, <1>8, <3>1, StillReported DEF LossOrNoise
  <2>3. ASSUME Reported(Len(calls))' PROVE \A c \in 1..Len(calls') : Reported(c)'
    BY <1>2, <2>2, <2>3
  <2>4. CASE Failing
    <3>1. calls'[Len(calls)].result = "raised"
      BY <1>2, <2>4, FinishResult DEF Failing, Results, LinkInv
    <3>2. Reported(Len(calls))'
      BY <1>2, <3>1, NothingReported
    <3> QED BY <2>1, <2>3, <2>4, <3>2 DEF Failing, MirrorPart
  <2>5. CASE Reporting
    <3>1. /\ calls'[Len(calls)].result = BenchResult /\ calls'[Len(calls)].cmd = ThisCall.cmd
          /\ pc = "command"
      <4>1. BenchResult \in Results
        BY DEF BenchResult, Results
      <4> QED BY <1>2, <2>5, <4>1, FinishResult DEF Reporting, LinkInv
    <3>2. /\ inflight.cmd = ThisCall.cmd
          /\ ThisCall.cmd \in {"SCHED", "SET_MODE", "RESET_QUEUE"}
      <4>1. Body("command", ThisCall, inflight.cmd, inflight.arg)
        BY <3>1 DEF LinkInv, FrameInv
      <4>2. Asks(ThisCall, Len(calls))
        BY <1>2 DEF LinkInv, CallsInv, ThisCall
      <4> QED BY <4>1, <4>2 DEF Body, Asks
    <3>3. answer.status \in {"ACK", "NACK"}
      BY AnsweredShape DEF LinkInv, MirrorInv
    <3>4. ~isAck /\ answer.code \in {QueueFull, Busy} => ~Acked
      BY <1>5, <3>3 DEF isAck, Acked, Garbled, MalformedNack, NackFor, MalformedFrame, QueueFull, Busy
    <3>5. ~isAck /\ LossOrNoise => ~Acked
      BY <1>5, <3>3 DEF isAck, Acked, Garbled, LossOrNoise
    <3>6. Reported(Len(calls))'
      <4>1. ThisCall.cmd = "SCHED" => effects[Len(calls)] = IF Acked THEN 1 ELSE 0
        BY <1>2, <1>4, <3>2 DEF WireAgree, EffectInv, IsJob
      <4> DEFINE n == Len(calls)
      <4>2. /\ BenchResult = "ACK" => isAck
            /\ BenchResult \in {"NACK_QUEUE_FULL", "NACK_BUSY"} =>
                 ~isAck /\ answer.code \in {QueueFull, Busy}
            /\ BenchResult = "NACK_SAFE" => ~isAck
        BY DEF BenchResult
      <4>3. /\ ThisCall.cmd = "SCHED" =>
              /\ BenchResult = "ACK" => effects[n] = 1
              /\ BenchResult \in {"NACK_QUEUE_FULL", "NACK_BUSY"} => effects[n] = 0
              /\ BenchResult = "NACK_SAFE" /\ LossOrNoise => effects[n] = 0
        BY <1>5, <3>4, <3>5, <4>1, <4>2
      <4>4. Len(calls') = n /\ LossOrNoise' = LossOrNoise /\ effects' = effects
        BY <1>2, <1>3 DEF LossOrNoise
      <4> QED BY <3>1, <4>3, <4>4 DEF Reported
    <3>7. MirrorPart'
      <4> SUFFICES ASSUME LossOrNoise PROVE expectedMode' = mode /\ lastDepth' = Len(queue)
        BY <1>3, <1>8 DEF MirrorPart, Mirrored, LossOrNoise
      <4>1. ~syncRequired
        BY <3>1 DEF SyncInv
      <4>2. CASE isAck
        <5>1. answer.mode = mode /\ answer.depth = Len(queue)
          BY <1>2, <1>4, <1>5, <4>2 DEF WireAgree, FiledInv
        <5>2. inflight.cmd = "RESET_QUEUE" => expectedMode = mode
          BY <1>4, <3>1, <4>1 DEF MirrorPart
        <5> QED BY <2>5, <3>2, <4>2, <5>1, <5>2 DEF Reporting
      <4>3. CASE ~isAck
        BY <1>4, <2>5, <3>1, <3>5, <4>1, <4>3 DEF MirrorPart, Mirrored, Reporting
      <4> QED BY <4>2, <4>3
    <3> QED BY <2>1, <2>3, <3>6, <3>7
  <2> QED BY <1>1, <1>8, <2>4, <2>5 DEF Asking, Asked
<1> QED BY <1>7, <1>8

\* A call that fails on a damaged line or for want of one.
LEMMA QuietFails ==
  ASSUME LinkInv, QuietInv, CountInv, pc # "idle", pc' = "idle", toHost = <<>>, toHost' = <<>>,
         toClient' = <<>>, syncRequired' = TRUE, Len(calls') = Len(calls), Quiet,
         UNCHANGED <<recentResults, nextId, plugged, unplugs, garbles, effects>>,
         \A c \in 1..(Len(calls) - 1) : calls'[c] = calls[c],
         calls'[Len(calls)].result = "raised"
  PROVE  SyncInv' /\ QuietInv'
<1>1. WireAgree /\ MirrorPart /\ \A c \in 1..Len(calls) : Reported(c)
  BY DEF QuietInv
<1>2. WireAgree'
  BY <1>1, AgreeEnds
<1>3. MirrorPart' /\ SyncInv'
  BY DEF MirrorPart, SyncInv
<1>4. ASSUME NEW c \in 1..Len(calls) PROVE Reported(c)'
  <2>1. CASE c = Len(calls)
    BY <2>1, NothingReported
  <2>2. CASE c # Len(calls)
    <3>1. c \in 1..(Len(calls) - 1)
      BY <2>2 DEF LinkInv, CallsInv
    <3> QED BY <1>1, <3>1, StillReported DEF LossOrNoise
  <2> QED BY <2>1, <2>2
<1> QED BY <1>2, <1>3, <1>4 DEF QuietInv

LEMMA QuietNoLine ==
  ASSUME LinkInv, LinkInv', OnceInv, SyncInv, QuietInv, ParseError \/ Timeout
  PROVE  SyncInv' /\ QuietInv'
<1>1. CASE ParseError
  <2>1. /\ Len(calls') = Len(calls) /\ pc # "idle" /\ pc' = "idle"
        /\ UNCHANGED <<hostVars, plugged, budgetVars, historyVars, inflight, nextId, toHost>>
        /\ \A c \in 1..(Len(calls) - 1) : calls'[c] = calls[c]
        /\ toClient # <<>> /\ toClient' = Tail(toClient) /\ syncRequired' = TRUE
    BY <1>1, ParseErrorStep
  <2>2. UNCHANGED <<recentResults, plugged, unplugs, garbles, sessions, hostResets, late, effects>>
    BY <2>1 DEF hostVars, cacheVars, budgetVars, historyVars
  <2>3. SyncInv'
    BY <2>1 DEF SyncInv
  <2>4. CASE Quiet
    <3>1. toHost = <<>> /\ toClient' = <<>>
      BY <2>1, <2>4, AnswerIs DEF QuietInv
    <3>2. calls'[Len(calls)].result = "raised"
      BY <1>1, <2>1, FinishResult DEF ParseError, Results, LinkInv
    <3> QED BY <2>1, <2>2, <2>4, <3>1, <3>2, QuietFails DEF LinkInv
  <2>5. CASE ~Quiet
    BY <2>2, <2>3, <2>5 DEF Quiet, QuietInv
  <2> QED BY <2>4, <2>5
<1>2. CASE Timeout
  <2>1. /\ Len(calls') = Len(calls) /\ pc # "idle"
        /\ UNCHANGED <<hostVars, plugged, budgetVars, effects, inflight, nextId, toClient,
                       expectedMode, lastDepth, handshakeComplete>>
        /\ toClient = <<>> /\ (toHost = <<>> \/ late' = late + 1) /\ late' \in {late, late + 1}
        /\ \/ /\ pc' = pc /\ calls' = calls /\ toHost' = Written(inflight)
              /\ UNCHANGED syncRequired
           \/ /\ pc' = "idle" /\ toHost' = toHost /\ syncRequired' = TRUE
              /\ \A c \in 1..(Len(calls) - 1) : calls'[c] = calls[c]
              /\ calls'[Len(calls)].result = "raised"
    BY <1>2, TimeoutStep
  <2>2. UNCHANGED <<mode, queue, recentResults, unplugs, garbles, sessions, hostResets>>
    BY <2>1 DEF hostVars, controlVars, cacheVars, budgetVars
  <2>3. SyncInv'
    BY <2>1 DEF SyncInv
  <2>4. CASE Quiet'
    <3>1. toHost = <<>> /\ late' = late /\ Quiet
      BY <2>1, <2>2, <2>4 DEF Quiet, LinkInv, CountInv
    <3>2. WireAgree /\ MirrorPart /\ \A c \in 1..Len(calls) : Reported(c)
      BY <3>1 DEF QuietInv
    <3>3. CASE pc' = "idle"
      BY <2>1, <2>2, <3>1, <3>3, QuietFails DEF LinkInv
    <3>4. CASE pc' # "idle"
      <4>1. unplugs # 0
        BY <2>1, <3>1, <3>2 DEF WireAgree, NoLoss
      <4>2. toHost' = <<>> \/ toHost' = <<inflight>>
        BY <2>1, <3>1, <3>4 DEF Written
      <4>3. inflight # Garbled
        BY <2>1 DEF LinkInv, FrameInv, Requests, Garbled
      <4>4. OneOut' /\ NoNoise' /\ NoLoss'
        BY <2>1, <2>2, <3>4, <4>1, <4>2, <4>3 DEF OneOut, NoNoise, NoLoss
      <4>5. FiledInv' /\ EffectInv' /\ MirrorPart'
        BY <2>1, <2>2, <3>2, <3>4
           DEF WireAgree, FiledInv, EffectInv, MirrorPart, Served, Filed, Acked, Mirrored,
               LossOrNoise
      <4>6. \A c \in 1..Len(calls') : Reported(c)'
        BY <2>1, <2>2, <3>2, <3>4, StillReported DEF LossOrNoise
      <4> QED BY <2>3, <4>4, <4>5, <4>6 DEF WireAgree, QuietInv
    <3> QED BY <3>3, <3>4
  <2> QED BY <2>3, <2>4 DEF QuietInv
<1> QED BY <1>1, <1>2

\* The endpoint takes the frame in flight, or what noise left of it.
LEMMA QuietServes ==
  ASSUME LinkInv, LinkInv', OnceInv, SyncInv, QuietInv, HostStep
  PROVE  SyncInv' /\ QuietInv'
<1>1. /\ UNCHANGED <<pc, inflight, nextId, calls, syncRequired, handshakeComplete, expectedMode,
                     lastDepth, plugged, unplugs, garbles, sessions, hostResets, late>>
      /\ toHost # <<>> /\ toHost' = Tail(toHost)
      /\ toClient' = IF plugged THEN Append(toClient, reply') ELSE toClient
  BY DEF HostStep, sessionVars, frameVars, linkTimers, mirrorVars, budgetVars
<1>2. SyncInv'
  BY <1>1 DEF SyncInv
<1> SUFFICES ASSUME Quiet' PROVE WireAgree' /\ MirrorPart' /\ \A c \in 1..Len(calls') : Reported(c)'
  BY <1>2 DEF QuietInv
<1>3. WireAgree /\ MirrorPart /\ \A c \in 1..Len(calls) : Reported(c)
  BY <1>1 DEF Quiet, QuietInv
<1>4. /\ pc # "idle" /\ toClient = <<>> /\ toHost \in {<<inflight>>, <<Garbled>>}
  BY <1>1, <1>3 DEF WireAgree, OneOut
<1>5. /\ toHost' = <<>> /\ Head(toHost) \in {inflight, Garbled}
      /\ Head(toHost) = Garbled => toHost = <<Garbled>>
      /\ toClient' = <<>> \/ toClient' = <<reply'>>
      /\ plugged => toClient' = <<reply'>>
  <2>1. PICK frame \in {inflight, Garbled} : toHost = <<frame>>
    BY <1>4
  <2>2. Tail(toHost) = <<>> /\ Head(toHost) = frame
    BY <2>1
  <2>3. Append(<<>>, reply') = <<reply'>>
    OBVIOUS
  <2> QED BY <1>1, <1>4, <2>1, <2>2, <2>3
<1>6. /\ inflight \in Requests /\ inflight # Garbled /\ inflight.id = nextId - 1
      /\ nextId \in Nat \ {0} /\ nextId > 1 /\ Len(calls) \in 1..MaxCalls
      /\ IsJob(inflight) => inflight.arg = Len(calls)
  BY <1>3, <1>4, WaveType
     DEF LinkInv, FrameInv, WireAgree, FiledInv, WaveOK, JobFrames, Requests, Garbled
<1>7. \A line \in Acks \cup Nacks : line # MalformedNack /\ line # Garbled
  BY DEF Acks, Nacks, MalformedNack, NackFor, Garbled, MalformedFrame
<1>8. MalformedNack # Garbled
  BY DEF MalformedNack, NackFor, Garbled
<1>9. effects \in [1..MaxCalls -> Nat] /\ queue \in Seq(Jobs) /\ Len(queue) \in Nat
  BY DEF LinkInv, CountInv, HostInv, HostTypeOK
<1>10. UNCHANGED queue => effects' = effects
  BY <1>9 DEF HostStep
<1>11. CASE UNCHANGED <<mode, queue, recentResults>>
  <2>1. effects' = effects
    BY <1>10, <1>11
  <2>2. FiledInv' /\ EffectInv' /\ MirrorPart'
    BY <1>1, <1>3, <1>11, <2>1
       DEF WireAgree, FiledInv, EffectInv, MirrorPart, Served, Filed, Acked, Mirrored, LossOrNoise
  <2>3. \A c \in 1..Len(calls') : Reported(c)'
    BY <1>1, <1>3, <2>1, StillReported DEF LossOrNoise
  <2>4. CASE Head(toHost) = Garbled
    <3>1. reply' = MalformedNack
      BY <2>4 DEF HostStep, HandleMalformed
    <3>2. garbles # 0 /\ (unplugs = 0 => plugged /\ ~Served)
      BY <1>1, <1>3, <1>4, <1>5, <2>4 DEF WireAgree, NoNoise, NoLoss
    <3>3. OneOut' /\ NoNoise' /\ NoLoss'
      BY <1>1, <1>4, <1>5, <1>11, <3>1, <3>2 DEF OneOut, NoNoise, NoLoss, Served
    <3> QED BY <2>2, <2>3, <3>3 DEF WireAgree
  <2>5. CASE Head(toHost) = inflight
    <3>1. HandleRequest(inflight)
      BY <1>6, <2>5 DEF HostStep
    <3>2. /\ inflight.id \in DOMAIN recentResults' /\ recentResults'[inflight.id] = reply'
          /\ reply' \in Acks \cup Nacks
      BY <1>6, <3>1, AnswerOnFile DEF LinkInv
    <3>3. unplugs # 0
      BY <1>1, <1>3, <1>4, <1>11, <3>2 DEF WireAgree, NoLoss, Served
    <3>4. OneOut' /\ NoNoise' /\ NoLoss'
      BY <1>1, <1>4, <1>5, <1>7, <3>2, <3>3 DEF OneOut, NoNoise, NoLoss, Served, Filed
    <3> QED BY <2>2, <2>3, <3>4 DEF WireAgree
  <2> QED BY <1>5, <2>4, <2>5
<1>12. CASE ~UNCHANGED <<mode, queue, recentResults>>
  <2>1. Head(toHost) = inflight /\ HandleRequest(inflight) /\ Fresh(inflight)
    <3>1. Head(toHost) # Garbled
      BY <1>12 DEF HostStep, HandleMalformed, controlVars, cacheVars
    <3>2. HandleRequest(inflight)
      BY <1>5, <3>1 DEF HostStep
    <3>3. Fresh(inflight)
      BY <1>6, <1>12, <3>2, RequestAnswers DEF LinkInv
    <3> QED BY <1>5, <3>1, <3>2, <3>3
  <2>2. /\ \A id \in DOMAIN recentResults' : id \in DOMAIN recentResults \/ id = inflight.id
        /\ inflight.id \in DOMAIN recentResults' /\ recentResults'[inflight.id] = reply'
        /\ reply' \in Acks \cup Nacks
        /\ reply'.status = "ACK" => reply'.mode = mode' /\ reply'.depth = Len(queue')
        /\ reply'.status # "ACK" => UNCHANGED <<mode, queue>>
        /\ inflight.cmd \in {"HELLO", "HEARTBEAT", "GET_STATE"} => UNCHANGED <<mode, queue>>
        /\ inflight.cmd \in {"RESET_QUEUE", "SCHED"} => mode' = mode
        /\ inflight.cmd = "SCHED" /\ reply'.status = "ACK" => queue' = Append(queue, inflight.arg)
    BY <1>6, <2>1, FreshAnswer DEF LinkInv
  <2>3. ~Served /\ ~Acked /\ Served' /\ Filed' = reply' /\ (Acked' <=> reply'.status = "ACK")
    BY <1>1, <2>1, <2>2 DEF Fresh, Served, Acked, Filed
  <2>4. OneOut' /\ NoNoise'
    BY <1>1, <1>4, <1>5, <1>7, <2>2, <2>3 DEF OneOut, NoNoise
  <2>5. NoLoss'
    BY <1>1, <1>3, <1>5, <1>7, <2>2 DEF WireAgree, NoLoss
  <2>6. FiledInv'
    <3>1. inflight.id \in 1..(nextId - 1)
      BY <1>6
    <3>2. DOMAIN recentResults' \subseteq 1..(nextId - 1)
      BY <1>3, <2>2, <3>1 DEF WireAgree, FiledInv
    <3> QED BY <1>1, <1>6, <2>2, <2>3, <3>2 DEF FiledInv
  <2>7. effects[Len(calls)] = 0
    BY <1>3, <1>4, <2>3 DEF WireAgree, EffectInv
  <2>8. /\ \A c \in 1..MaxCalls : c # Len(calls) => effects'[c] = effects[c]
        /\ effects'[Len(calls)] = IF IsJob(inflight) /\ Acked' THEN 1 ELSE 0
    <3>1. CASE IsJob(inflight) /\ Acked'
      <4>1. queue' = Append(queue, inflight.arg) /\ inflight.arg = Len(calls)
        BY <1>6, <2>2, <2>3, <3>1 DEF IsJob
      <4>2. Len(queue') > Len(queue) /\ queue'[Len(queue')] = Len(calls)
        <5>1. inflight.arg \in Jobs
          BY <1>6, <4>1, LinkAssumption
        <5> QED BY <1>9, <4>1, <5>1
      <4>3. effects' = [c \in 1..MaxCalls |->
                          IF c = Len(calls) THEN effects[c] + 1 ELSE effects[c]]
        BY <1>9, <4>2 DEF HostStep
      <4> QED BY <1>6, <1>9, <2>7, <3>1, <4>3
    <3>2. CASE ~(IsJob(inflight) /\ Acked')
      <4>1. ~(Len(queue') > Len(queue))
        <5>1. CASE ~IsJob(inflight)
          BY <1>6, <2>1, <5>1, FreshRequest DEF LinkInv, IsJob
        <5>2. CASE ~Acked'
          BY <1>9, <2>2, <2>3, <5>2
        <5> QED BY <3>2, <5>1, <5>2
      <4>2. effects' = effects
        BY <1>9, <4>1 DEF HostStep
      <4> QED BY <2>7, <3>2, <4>2
    <3> QED BY <3>1, <3>2
  <2>9. EffectInv'
    BY <1>1, <2>8 DEF EffectInv
  <2>10. ASSUME NEW c \in 1..Len(calls') PROVE Reported(c)'
    <3>1. CASE c = Len(calls)
      <4>1. calls'[c].result = "pending"
        BY <1>1, <1>4, <3>1 DEF LinkInv, CallsInv
      <4> QED BY <4>1, NothingReported
    <3>2. CASE c # Len(calls)
      <4>1. c \in 1..MaxCalls
        BY <1>1, LinkAssumption DEF LinkInv, CallsInv
      <4> QED BY <1>1, <1>3, <2>8, <3>2, <4>1, StillReported DEF LossOrNoise
    <3> QED BY <3>1, <3>2
  <2>11. MirrorPart'
    <3> SUFFICES ASSUME LossOrNoise, ~syncRequired
                 PROVE  /\ pc = "beat" \/ (pc = "command" /\ ~Acked') => Mirrored'
                        /\ pc = "command" /\ inflight.cmd = "RESET_QUEUE" => expectedMode = mode'
      BY <1>1, <1>4 DEF MirrorPart, LossOrNoise
    <3>1. CASE pc = "beat"
      <4>1. inflight.cmd = "HEARTBEAT" /\ Mirrored
        BY <1>3, <3>1 DEF LinkInv, FrameInv, Body, MirrorPart
      <4> QED BY <1>1, <2>2, <3>1, <4>1 DEF Mirrored
    <3>2. CASE pc = "command"
      <4>1. Mirrored /\ (inflight.cmd = "RESET_QUEUE" => expectedMode = mode)
        BY <1>3, <2>3, <3>2 DEF MirrorPart
      <4> QED BY <1>1, <2>2, <2>3, <3>2, <4>1 DEF Mirrored
    <3> QED BY <3>1, <3>2
  <2> QED BY <2>4, <2>5, <2>6, <2>9, <2>10, <2>11 DEF WireAgree
<1> QED BY <1>11, <1>12

\* The clock, the cable and the noise.
LEMMA QuietWorld ==
  ASSUME LinkInv, LinkInv', SyncInv, QuietInv, HostTick \/ Unplug \/ Replug \/ Garble
  PROVE  SyncInv' /\ QuietInv'
<1>1. /\ UNCHANGED <<pc, inflight, nextId, calls, syncRequired, handshakeComplete, expectedMode,
                     lastDepth, sessions, hostResets, late, effects, mode, queue, recentResults>>
      /\ LossOrNoise' => LossOrNoise
  <2>1. LossOrNoise' => LossOrNoise
    BY DEF HostTick, Unplug, Replug, Garble, budgetVars, LossOrNoise, LinkInv, CountInv
  <2> QED BY <2>1 DEF HostTick, Tick, Unplug, Replug, Garble, hostVars, controlVars, cacheVars,
             sessionVars, frameVars, linkTimers, mirrorVars, budgetVars, historyVars
<1>2. SyncInv'
  BY <1>1 DEF SyncInv
<1> SUFFICES ASSUME Quiet' PROVE WireAgree' /\ MirrorPart' /\ \A c \in 1..Len(calls') : Reported(c)'
  BY <1>2 DEF QuietInv
<1>3. WireAgree /\ MirrorPart /\ \A c \in 1..Len(calls) : Reported(c)
  BY <1>1 DEF Quiet, QuietInv
<1>4. FiledInv' /\ EffectInv' /\ MirrorPart'
  BY <1>1, <1>3
     DEF WireAgree, FiledInv, EffectInv, MirrorPart, Served, Filed, Acked, Mirrored
<1>5. \A c \in 1..Len(calls') : Reported(c)'
  BY <1>1, <1>3, StillReported
<1>6. OneOut' /\ NoNoise' /\ NoLoss'
  <2> USE DEF OneOut, NoNoise, NoLoss, WireAgree, Served, Filed
  <2>1. CASE HostTick
    BY <1>1, <1>3, <2>1 DEF HostTick, wireVars, budgetVars
  <2>2. CASE Unplug
    <3>1. /\ unplugs' # 0 /\ garbles' = garbles
          /\ toHost' \in {toHost, <<>>} /\ toClient' \in {toClient, <<>>}
      BY <2>2 DEF Unplug, LinkInv, CountInv
    <3> QED BY <1>1, <1>3, <3>1
  <2>3. CASE Replug
    BY <1>1, <1>3, <2>3 DEF Replug, budgetVars
  <2>4. CASE Garble
    <3>1. /\ garbles' # 0 /\ UNCHANGED <<plugged, unplugs>>
          /\ \/ toHost # <<>> /\ toHost' = <<Garbled>> \o Tail(toHost) /\ UNCHANGED toClient
             \/ toClient # <<>> /\ toClient' = <<Garbled>> \o Tail(toClient) /\ UNCHANGED toHost
      BY <2>4 DEF Garble, LinkInv, CountInv
    <3>2. \A line : Tail(<<line>>) = <<>> /\ <<Garbled>> \o <<>> = <<Garbled>>
      OBVIOUS
    <3>3. <<Garbled>> # <<MalformedNack>> /\ <<Garbled>> # <<>>
      BY DEF Garbled, MalformedNack, NackFor
    <3>4. CASE toHost # <<>> /\ toHost' = <<Garbled>> \o Tail(toHost) /\ UNCHANGED toClient
      <4>1. toHost' = <<Garbled>>
        <5>1. toHost \in {<<inflight>>, <<Garbled>>}
          BY <1>3, <3>4
        <5>2. Tail(toHost) = <<>>
          BY <3>2, <5>1
        <5> QED BY <3>2, <3>4, <5>2
      <4> QED BY <1>1, <1>3, <3>1, <3>3, <3>4, <4>1
    <3>5. CASE toClient # <<>> /\ toClient' = <<Garbled>> \o Tail(toClient) /\ UNCHANGED toHost
      <4>1. toClient' = <<Garbled>>
        <5>1. toClient \in {<<Garbled>>, <<MalformedNack>>, <<Filed>>}
          BY <1>3, <3>5
        <5>2. Tail(toClient) = <<>>
          BY <3>2, <5>1
        <5> QED BY <3>2, <3>5, <5>2
      <4> QED BY <1>1, <1>3, <3>1, <3>3, <3>5, <4>1
    <3> QED BY <3>1, <3>4, <3>5
  <2> QED BY <2>1, <2>2, <2>3, <2>4
<1> QED BY <1>3, <1>4, <1>5, <1>6 DEF WireAgree

LEMMA QuietStep ==
  ASSUME LinkInv, LinkInv', OnceInv, SyncInv, QuietInv, [Next]_vars
  PROVE  SyncInv' /\ QuietInv'
<1>1. CASE HostReset
  <2>1. /\ UNCHANGED <<pc, syncRequired, handshakeComplete>> /\ hostResets' = hostResets + 1
    BY <1>1 DEF HostReset, sessionVars, frameVars, linkTimers
  <2>2. ~Quiet'
    BY <2>1 DEF Quiet, LinkInv, CountInv
  <2> QED BY <2>1, <2>2 DEF SyncInv, QuietInv
<1>2. CASE Reopen
  <2>1. pc' = "idle" /\ syncRequired' = TRUE /\ sessions' = sessions + 1
    BY <1>2 DEF Reopen, SessionStart
  <2>2. ~Quiet'
    BY <2>1 DEF Quiet, LinkInv, CountInv
  <2> QED BY <2>1, <2>2 DEF SyncInv, QuietInv
<1>3. CASE UNCHANGED vars
  BY <1>3 DEF vars, hostVars, controlVars, cacheVars, sessionVars, frameVars, linkTimers,
     mirrorVars, wireVars, budgetVars, historyVars, SyncInv, QuietInv, Quiet, WireAgree, OneOut,
     NoNoise, NoLoss, FiledInv, EffectInv, MirrorPart, Mirrored, Served, Filed, Acked, Reported,
     LossOrNoise
<1> QED BY <1>1, <1>2, <1>3, QuietCall, QuietAnswered, QuietNoLine, QuietServes, QuietWorld
        DEF Next, Calls

LEMMA QuietAlways == Spec => [](LinkInv /\ OnceInv /\ SyncInv /\ QuietInv)
<1>1. Init => OnceInv /\ SyncInv /\ QuietInv
  <2> SUFFICES ASSUME Init PROVE OnceInv /\ SyncInv /\ QuietInv
    OBVIOUS
  <2>1. /\ Wave = <<>> /\ calls = <<>> /\ effects = [c \in 1..MaxCalls |-> 0] /\ pc = "idle"
        /\ syncRequired = TRUE /\ toHost = <<>> /\ toClient = <<>> /\ plugged = TRUE
        /\ DOMAIN recentResults = {}
    BY DEF Init, HostInit, Wave
  <2>2. OnceInv
    BY <2>1 DEF OnceInv, Together, DoneFirst, JobsUpTo
  <2>3. WireAgree /\ MirrorPart /\ SyncInv
    BY <2>1 DEF WireAgree, OneOut, NoNoise, NoLoss, FiledInv, EffectInv, MirrorPart, SyncInv
  <2> QED BY <2>1, <2>2, <2>3 DEF QuietInv
<1>2. LinkInv /\ LinkInv' /\ OnceInv /\ SyncInv /\ QuietInv /\ [Next]_vars
        => OnceInv' /\ SyncInv' /\ QuietInv'
  BY OnceStep, QuietStep
<1> QED BY <1>1, <1>2, LinkInvAlways, PTL DEF Spec

\* What send() returns is what became of its job, as long as no readline
\* gives up on an answer under way and neither end restarts: accepted means
\* enqueued, refused as full or busy means not enqueued, and so does any
\* other refusal on a cable that was not both pulled and noisy.
THEOREM ReportsStayTrue == Spec => []ReportsAreTrue
<1>1. QuietInv => ReportsAreTrue
  BY DEF QuietInv, Quiet, Reported, ReportsAreTrue
<1> QED BY <1>1, QuietAlways, PTL

\* Between calls, a transport that sees no need to synchronise holds the
\* mode and the queue depth of the endpoint, whatever was lost or damaged.
THEOREM MirrorStaysTrue == Spec => []MirrorAgrees
<1>1. QuietInv => MirrorAgrees
  BY DEF QuietInv, Quiet, MirrorPart, Mirrored, MirrorAgrees
<1> QED BY <1>1, QuietAlways, PTL
=============================================================================
