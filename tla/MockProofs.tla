----------------------------- MODULE MockProofs -----------------------------
(***************************************************************************)
(* Proofs about module MockTransport for every set of jobs, every queue    *)
(* depth, cache size and heartbeat timeout, and every number of ids.  The  *)
(* steps of the embedded endpoint are covered by the lemmas of HostProofs; *)
(* what is new is step_queue, which changes the endpoint's fields from     *)
(* outside, and the endpoint that construction leaves behind.              *)
(***************************************************************************)
EXTENDS MockTransport, HostProofs

\* The codes send() can return, and "NONE" before the first call.
ResponseCodes == {"NONE", "ACK", "NACK_QUEUE_FULL", "NACK_BUSY", "NACK_SAFE", "NACK_WATCHDOG"}

\* The inductive invariant: the endpoint's own, the types of the mock's
\* fields, and the copy of the queue.
OwnTypeOK == /\ fault \in FaultStates
             /\ lastCleared \in BOOLEAN
             /\ response \in ResponseCodes
             /\ nextId \in Nat \ {0}

MockInv == HostInv /\ OwnTypeOK /\ mirror = queue

\* The frame of a command is a request of the endpoint.
LEMMA CommandIsRequest ==
  ASSUME OwnTypeOK, nextId <= MaxIds, NEW cmd, NEW arg,
         \/ cmd = "SET_MODE" /\ arg \in Modes
         \/ cmd = "SCHED" /\ arg \in Jobs
         \/ cmd \in {"HEARTBEAT", "GET_STATE", "RESET_QUEUE"} /\ arg = NoArg
  PROVE  [id |-> nextId, cmd |-> cmd, flaw |-> "none", arg |-> arg] \in Requests
<1>1. nextId \in MsgIds
  BY MockAssumption DEF OwnTypeOK
<1> QED BY <1>1 DEF Requests

\* A reply of the endpoint that is an ACK says whether the queue was cleared.
LEMMA ClearedType ==
  ASSUME NEW r \in Replies, r.status = "ACK"
  PROVE  r.cleared \in BOOLEAN
BY DEF Replies, Acks, Nacks, MalformedNack, NackFor, NoReply, Raised

\* One command is one step of the endpoint, and the mock refreshes its copy.
LEMMA CommandStep ==
  ASSUME MockInv, NEW cmd, NEW arg, Command(cmd, arg), response' \in ResponseCodes,
         \/ cmd = "SET_MODE" /\ arg \in Modes
         \/ cmd = "SCHED" /\ arg \in Jobs
         \/ cmd \in {"HEARTBEAT", "GET_STATE", "RESET_QUEUE"} /\ arg = NoArg
  PROVE  MockInv' /\ HostNext
<1> DEFINE req == [id |-> nextId, cmd |-> cmd, flaw |-> "none", arg |-> arg]
<1>1. OwnTypeOK /\ HostInv
  BY DEF MockInv
<1>2. nextId <= MaxIds /\ HandleRequest(req)
  BY DEF Command
<1>3. req \in Requests
  BY <1>1, <1>2, CommandIsRequest
<1> HIDE DEF req
<1>4. HostInv' /\ HostNext
  BY <1>1, <1>2, <1>3, RequestStep DEF HostNext
<1>5. reply' \in Replies
  BY <1>4 DEF HostInv, HostTypeOK
<1>6. lastCleared' \in BOOLEAN
  BY <1>5, ClearedType DEF Command
<1>7. fault' \in FaultStates
  BY <1>1 DEF Command, OwnTypeOK, FaultStates
<1>8. nextId' \in Nat \ {0} /\ mirror' = queue'
  BY <1>1 DEF Command, OwnTypeOK, RefreshCopy
<1> QED BY <1>4, <1>6, <1>7, <1>8 DEF MockInv, OwnTypeOK

\* What step_queue leaves is a queue of jobs, no longer than the one before,
\* and empty if that one was.
LEMMA RestFacts ==
  ASSUME HostInv, NEW items \in 0..MaxQueueDepth
  PROVE  LET consume == IF items < Len(queue) THEN items ELSE Len(queue)
         IN /\ consume \in 0..Len(queue)
            /\ RestAfter(consume) \in Seq(Jobs)
            /\ Len(RestAfter(consume)) = Len(queue) - consume
            /\ RestAfter(consume) # <<>> => queue # <<>>
            /\ consume = 0 => RestAfter(consume) = queue
<1> DEFINE consume == IF items < Len(queue) THEN items ELSE Len(queue)
<1>1. queue \in Seq(Jobs) /\ Len(queue) \in Nat
  BY DEF HostInv, HostTypeOK
<1>2. consume \in 0..Len(queue)
  BY <1>1, HostAssumption
<1> HIDE DEF consume
<1>3. RestAfter(consume) \in Seq(Jobs) /\ Len(RestAfter(consume)) = Len(queue) - consume
  BY <1>1, <1>2 DEF RestAfter
<1>4. RestAfter(consume) # <<>> => queue # <<>>
  BY <1>1, <1>2, <1>3
<1>5. consume = 0 => RestAfter(consume) = queue
  BY <1>1 DEF RestAfter
<1> QED BY <1>2, <1>3, <1>4, <1>5 DEF consume

\* step_queue keeps the invariant of the endpoint it works on from outside,
\* and is a drain of the abstract queue.
LEMMA StepQueueStep ==
  ASSUME MockInv, NEW items \in 0..MaxQueueDepth, StepQueue(items)
  PROVE  MockInv' /\ [MQ!MQNext]_(MQ!mqVars)
<1> DEFINE consume == IF items < Len(queue) THEN items ELSE Len(queue)
           rest    == RestAfter(consume)
<1>1. HostInv /\ OwnTypeOK
  BY DEF MockInv
<1>2. /\ SetQueue(rest) /\ RefreshCopy /\ lastCleared' = ClearedBy(consume, rest)
      /\ UNCHANGED <<mode, linkState, linkVars, busy, cacheVars, reply, fault, nextId, response>>
  BY DEF StepQueue
<1>3. /\ consume \in 0..Len(queue)
      /\ rest \in Seq(Jobs)
      /\ Len(rest) = Len(queue) - consume
      /\ rest # <<>> => queue # <<>>
      /\ consume = 0 => rest = queue
  BY <1>1, RestFacts
<1>4. rest = SubSeq(queue, consume + 1, Len(queue))
  BY DEF RestAfter
<1> HIDE DEF consume, rest
<1>5. queue \in Seq(Jobs) /\ Len(queue) <= MaxQueueDepth /\ Len(queue) \in Nat
  BY <1>1 DEF HostInv, HostTypeOK
<1>6. queue' = rest /\ Len(rest) <= MaxQueueDepth
  BY <1>2, <1>3, <1>5, HostAssumption DEF SetQueue
<1>7. CachePart' /\ ControlPart'
  <2>1. CachePart'
    BY <1>1, <1>2 DEF HostInv, HostTypeOK, CachePart, CacheTypeOK, CacheCoherent, cacheVars
  <2>2. schedulerState' = IF rest = <<>> THEN "IDLE" ELSE "ACTIVE"
    BY <1>2 DEF SetQueue
  <2>3. ControlPart'
    BY <1>1, <1>2, <1>3, <1>6, <2>2
       DEF HostInv, HostTypeOK, QueueCoherent, ControlPart, linkVars
  <2> QED BY <2>1, <2>3
<1>8. HostInv'
  BY <1>7, HostInvParts, PTL
<1>9. MockInv'
  BY <1>1, <1>2, <1>8 DEF MockInv, OwnTypeOK, RefreshCopy, ClearedBy
<1>10. [MQ!MQNext]_(MQ!mqVars)
  <2>1. CASE consume = 0
    BY <1>2, <1>3, <1>6, <2>1 DEF MQ!mqVars
  <2>2. CASE consume # 0
    <3>1. consume \in 1..Len(queue)
      BY <1>3, <1>5, <2>2
    <3>2. MQ!Drain(consume)
      BY <1>2, <1>4, <1>6 DEF MQ!Drain
    <3> QED BY <3>1, <3>2 DEF MQ!MQNext
  <2> QED BY <2>1, <2>2
<1> QED BY <1>9, <1>10

\* Every step of the mock preserves the invariant and is a step of the
\* abstract endpoint or a stutter.
LEMMA MockStep ==
  ASSUME MockInv, [MockNext]_mockVars
  PROVE  MockInv' /\ [MQ!MQNext]_(MQ!mqVars)
<1>0. HostInv /\ OwnTypeOK /\ mirror = queue
  BY DEF MockInv
<1>a. ASSUME HostNext PROVE [MQ!MQNext]_(MQ!mqVars)
  BY <1>0, <1>a, HostStepRefines
<1>1. CASE SendCommand
  <2>1. response' \in ResponseCodes
    BY <1>0, <1>1 DEF SendCommand, OwnTypeOK
  <2>2. MockInv' /\ HostNext
    BY <1>1, <2>1, CommandStep DEF SendCommand
  <2> QED BY <2>2, <1>a
<1>2. CASE \E job \in Jobs : SendSched(job)
  <2>1. PICK job \in Jobs : SendSched(job)
    BY <1>2
  <2>2. response' \in ResponseCodes
    BY <2>1 DEF SendSched, AckCodeOf, ResponseCodes
  <2>3. MockInv' /\ HostNext
    BY <2>1, <2>2, CommandStep DEF SendSched
  <2> QED BY <2>3, <1>a
<1>3. CASE \E items \in 0..MaxQueueDepth : StepQueue(items)
  BY <1>3, StepQueueStep
<1>4. CASE MockTick
  <2>1. HostNext /\ UNCHANGED ownVars /\ queue' = queue
    BY <1>4 DEF MockTick, HostNext, Tick, controlVars
  <2>2. HostInv'
    BY <1>0, <2>1, HostStepInv
  <2> QED BY <1>0, <1>a, <2>1, <2>2 DEF MockInv, OwnTypeOK, ownVars
<1>5. ASSUME UNCHANGED hostVars, mirror' = mirror, OwnTypeOK'
      PROVE  MockInv' /\ [MQ!MQNext]_(MQ!mqVars)
  <2>1. HostInv'
    BY <1>0, <1>5, HostStepInv
  <2> QED BY <1>0, <1>5, <2>1 DEF MockInv, hostVars, controlVars, MQ!mqVars
<1>6. CASE SendRefused
  BY <1>0, <1>5, <1>6 DEF SendRefused, OwnTypeOK, ResponseCodes
<1>7. CASE \E f \in WrittenFaults : WriteFault(f)
  BY <1>0, <1>5, <1>7, MockAssumption DEF WriteFault, OwnTypeOK
<1>8. CASE UNCHANGED mockVars
  BY <1>0, <1>5, <1>8 DEF mockVars, ownVars, OwnTypeOK
<1> QED BY <1>1, <1>2, <1>3, <1>4, <1>6, <1>7, <1>8 DEF MockNext

\* What construction leaves behind: an endpoint that has answered a HELLO
\* and a HEARTBEAT, with as many of their answers as its cache holds.
LEMMA MockInitInv == MockInit => MockInv
<1> SUFFICES ASSUME MockInit PROVE MockInv
  OBVIOUS
<1>1. 1 \in MsgIds /\ 2 \in MsgIds
  BY MockAssumption
<1>2. \/ DedupeCacheSize = 1 /\ recentIds = <<2>>
      \/ DedupeCacheSize \in Nat \ {0, 1} /\ recentIds = <<1, 2>>
  BY HostAssumption DEF MockInit
<1>3. recentIds \in Seq(MsgIds) /\ Len(recentIds) <= DedupeCacheSize
      /\ \A i, j \in 1..Len(recentIds) : recentIds[i] = recentIds[j] => i = j
      /\ {recentIds[k] : k \in 1..Len(recentIds)} \subseteq {1, 2}
  <2>1. CASE DedupeCacheSize = 1 /\ recentIds = <<2>>
    <3>1. Len(recentIds) = 1 /\ recentIds[1] = 2 /\ recentIds \in Seq(MsgIds)
      BY <1>1, <2>1
    <3> QED BY <2>1, <3>1
  <2>2. CASE DedupeCacheSize \in Nat \ {0, 1} /\ recentIds = <<1, 2>>
    <3>1. Len(recentIds) = 2 /\ recentIds[1] = 1 /\ recentIds[2] = 2 /\ recentIds \in Seq(MsgIds)
      BY <1>1, <2>2
    <3> QED BY <2>2, <3>1
  <2> QED BY <1>2, <2>1, <2>2
<1>4. \A i \in {1, 2} : HandshakeAnswer(i) \in Acks \cup Nacks /\ HandshakeAnswer(i).id = i
  <2>1. ASSUME NEW i \in {1, 2} PROVE HandshakeAnswer(i) \in Acks /\ HandshakeAnswer(i).id = i
    <3>1. PICK l \in LinkStates : HandshakeAnswer(i) = AckFor(i, "AUTO", <<>>, FALSE, l)
      BY DEF HandshakeAnswer, LinkStates
    <3>2. Len(<<>>) \in 0..MaxQueueDepth
      BY HostAssumption
    <3> QED BY <1>1, <3>1, <3>2 DEF AckFor, Acks, Modes
  <2> QED BY <2>1
<1>5. recentResults = [i \in {recentIds[k] : k \in 1..Len(recentIds)} |-> HandshakeAnswer(i)]
      /\ reply = HandshakeAnswer(2)
  BY DEF MockInit
<1>6. CachePart
  BY <1>1, <1>3, <1>4, <1>5 DEF CachePart, CacheTypeOK, CacheCoherent, Replies
<1>7. ControlPart
  <2>1. queue \in Seq(Jobs) /\ Len(queue) <= MaxQueueDepth
    BY HostAssumption DEF MockInit
  <2>2. heartbeatAge = 0 /\ heartbeatAge \in Ages /\ heartbeatAge # Never
    BY HostAssumption DEF MockInit, Ages, AgeCap, Never
  <2> QED BY <2>1, <2>2 DEF MockInit, ControlPart, QueueCoherent, Modes, LinkStates
<1>8. HostInv
  BY <1>6, <1>7, HostInvParts
<1>9. OwnTypeOK /\ mirror = queue
  <2>1. /\ fault \in ConfiguredFaults /\ lastCleared = FALSE
        /\ nextId = 3 /\ response = "NONE" /\ mirror = <<>> /\ queue = <<>>
    BY DEF MockInit
  <2>2. fault \in FaultStates
    BY <2>1, MockAssumption
  <2>3. lastCleared \in BOOLEAN /\ response \in ResponseCodes
    BY <2>1, Zenon DEF ResponseCodes
  <2>4. nextId \in Nat \ {0} /\ mirror = queue
    BY <2>1
  <2> QED BY <2>2, <2>3, <2>4 DEF OwnTypeOK
<1> QED BY <1>8, <1>9 DEF MockInv

THEOREM MockInvariant == MockSpec => []MockInv
<1>1. MockInit => MockInv
  BY MockInitInv
<1>2. MockInv /\ [MockNext]_mockVars => MockInv'
  BY MockStep
<1> QED BY <1>1, <1>2, PTL DEF MockSpec

\* The copy of the queue never lags behind the host's queue, and consuming
\* jobs behind the host's back never breaks the host's own invariants.
THEOREM CopyStaysCurrent == MockSpec => []CopyIsCurrent
<1>1. MockInv => CopyIsCurrent
  BY DEF MockInv, OwnTypeOK, ResponseCodes, CopyIsCurrent, MockTypeOK, HostInv
<1> QED BY <1>1, MockInvariant, PTL

\* The endpoint behind the mock implements the abstract one for every queue
\* depth and every number of jobs step_queue takes.
THEOREM MockImplementsModeQueue == MockSpec => MockRefinesModeQueue
<1>1. MockInit => MQ!MQInit
  BY DEF MockInit, MQ!MQInit, Modes, MQ!Modes
<1>2. MockInv /\ [MockNext]_mockVars => [MQ!MQNext]_(MQ!mqVars)
  BY MockStep
<1>3. MockSpec => MQ!MQSpec
  BY <1>1, <1>2, MockInvariant, PTL DEF MockSpec, MQ!MQSpec
<1> QED BY <1>3 DEF MockRefinesModeQueue
=============================================================================
