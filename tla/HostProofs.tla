----------------------------- MODULE HostProofs -----------------------------
(***************************************************************************)
(* Proofs about module Host for every set of message ids and jobs, every   *)
(* queue depth, cache size and heartbeat timeout.                          *)
(***************************************************************************)
EXTENDS Host, SequenceTheorems, TLAPS

\* A request of the modelled wire names an id, an argument of the type its
\* command expects, and a flaw that maps to a canonical NACK code.
LEMMA RequestFacts ==
  ASSUME NEW req \in Requests
  PROVE  /\ req.id \in MsgIds
         /\ req.cmd = "HELLO" => req.arg \in OfferedSets
         /\ req.cmd = "SET_MODE" => req.arg \in Modes
         /\ req.cmd = "SCHED" => req.arg \in Jobs
         /\ req.flaw # "none" => ArgFlawCode[req.flaw] \in 1..7
BY DEF Requests, ArgFlawCode, ArgCount, ArgRange, ArgType, NoArg

\* The two answers a handler can build are well-formed and carry their id.
LEMMA AnswerFacts ==
  ASSUME NEW id \in MsgIds
  PROVE  /\ \A code \in 1..7 : NackFor(id, code) \in Nacks /\ NackFor(id, code).id = id
         /\ \A m \in Modes, q \in Seq(Jobs), c \in BOOLEAN, l \in LinkStates :
              Len(q) <= MaxQueueDepth =>
                AckFor(id, m, q, c, l) \in Acks /\ AckFor(id, m, q, c, l).id = id
BY HostAssumption DEF NackFor, Nacks, AckFor, Acks

\* _refresh_link_state yields one of the four link states.
LEMMA RefreshedLinkType == RefreshedLink \in LinkStates
BY DEF RefreshedLink, LinkStates

\* Filing an answer keeps the types of the cache.
LEMMA RememberType ==
  ASSUME HostTypeOK, NEW id \in MsgIds, NEW answer \in Acks \cup Nacks,
         Remember(id, answer)
  PROVE  /\ recentIds' \in Seq(MsgIds)
         /\ DOMAIN recentResults' \subseteq MsgIds
         /\ \A i \in DOMAIN recentResults' : recentResults'[i] \in Acks \cup Nacks
<1>1. recentIds' \in Seq(MsgIds)
  <2>1. CASE Len(recentIds) < DedupeCacheSize
    BY <2>1 DEF HostTypeOK, Remember, RememberedIds
  <2>2. CASE ~(Len(recentIds) < DedupeCacheSize)
    <3>1. recentIds # <<>>
      BY <2>2, HostAssumption DEF HostTypeOK
    <3> QED BY <2>2, <3>1 DEF HostTypeOK, Remember, RememberedIds
  <2> QED BY <2>1, <2>2
<1>2. DOMAIN recentResults' \subseteq MsgIds
  BY DEF HostTypeOK, Remember
<1>3. \A i \in DOMAIN recentResults' : recentResults'[i] \in Acks \cup Nacks
  BY DEF HostTypeOK, Remember
<1> QED BY <1>1, <1>2, <1>3

-----------------------------------------------------------------------------
\* Filing a new id keeps the two structures of the cache in step, also when
\* the oldest id is evicted for it.
LEMMA RememberCoherent ==
  ASSUME HostTypeOK, CacheCoherent,
         NEW id \in MsgIds, id \notin DOMAIN recentResults,
         NEW answer \in Acks \cup Nacks, answer.id = id,
         Remember(id, answer)
  PROVE  CacheCoherent'
<1> USE HostAssumption
<1>ids. recentIds \in Seq(MsgIds) /\ Len(recentIds) \in Nat
  BY DEF HostTypeOK
<1>new. \A i \in 1..Len(recentIds) : recentIds[i] # id
  BY DEF CacheCoherent
<1>file. \A i \in DOMAIN recentResults' : recentResults'[i].id = i
  BY DEF CacheCoherent, Remember
<1>1. CASE Len(recentIds) < DedupeCacheSize
  <2>1. recentIds' = Append(recentIds, id)
    BY <1>1 DEF Remember, RememberedIds
  <2>2. /\ Len(recentIds') = Len(recentIds) + 1
        /\ \A i \in 1..Len(recentIds) : recentIds'[i] = recentIds[i]
        /\ recentIds'[Len(recentIds) + 1] = id
    BY <1>ids, <2>1
  <2>3. DOMAIN recentResults' = DOMAIN recentResults \cup {id}
    BY <1>1 DEF Remember
  <2>4. DOMAIN recentResults' = {recentIds'[i] : i \in 1..Len(recentIds')}
    <3>1. DOMAIN recentResults = {recentIds[i] : i \in 1..Len(recentIds)}
      BY DEF CacheCoherent
    <3> QED BY <1>ids, <2>2, <2>3, <3>1
  <2>5. \A i, j \in 1..Len(recentIds') : recentIds'[i] = recentIds'[j] => i = j
    <3>1. \A i, j \in 1..Len(recentIds) : recentIds[i] = recentIds[j] => i = j
      BY DEF CacheCoherent
    <3> QED BY <1>ids, <1>new, <2>2, <3>1
  <2>6. Len(recentIds') <= DedupeCacheSize
    BY <1>ids, <1>1, <2>2
  <2> QED BY <1>file, <2>4, <2>5, <2>6 DEF CacheCoherent
<1>2. CASE ~(Len(recentIds) < DedupeCacheSize)
  <2>1. /\ recentIds' = Append(Tail(recentIds), id)
        /\ recentIds # <<>>
        /\ Len(recentIds) = DedupeCacheSize
    BY <1>2, <1>ids DEF Remember, RememberedIds, CacheCoherent
  <2>2. /\ Tail(recentIds) \in Seq(MsgIds)
        /\ Len(Tail(recentIds)) = Len(recentIds) - 1
        /\ \A i \in 1..(Len(recentIds) - 1) : Tail(recentIds)[i] = recentIds[i + 1]
        /\ Head(recentIds) = recentIds[1]
    BY <1>ids, <2>1
  <2>3. /\ Len(recentIds') = Len(recentIds)
        /\ \A i \in 1..(Len(recentIds) - 1) : recentIds'[i] = recentIds[i + 1]
        /\ recentIds'[Len(recentIds)] = id
    BY <1>ids, <2>1, <2>2
  <2>4. DOMAIN recentResults' = (DOMAIN recentResults \cup {id}) \ {recentIds[1]}
    BY <1>2, <2>2 DEF Remember
  <2>5. \A i, j \in 1..Len(recentIds) : recentIds[i] = recentIds[j] => i = j
    BY DEF CacheCoherent
  <2>6. DOMAIN recentResults = {recentIds[i] : i \in 1..Len(recentIds)}
    BY DEF CacheCoherent
  <2>7. DOMAIN recentResults' = {recentIds'[i] : i \in 1..Len(recentIds')}
    <3>1. ASSUME NEW x \in DOMAIN recentResults'
          PROVE  \E i \in 1..Len(recentIds') : x = recentIds'[i]
      <4>1. CASE x = id
        BY <4>1, <1>ids, <2>1, <2>3
      <4>2. CASE x # id
        <5>1. PICK k \in 1..Len(recentIds) : x = recentIds[k]
          BY <4>2, <2>4, <2>6, <3>1
        <5>2. k # 1
          BY <5>1, <2>4, <3>1
        <5>3. k - 1 \in 1..(Len(recentIds) - 1) /\ recentIds'[k - 1] = recentIds[k]
          <6>1. k - 1 \in 1..(Len(recentIds) - 1) /\ (k - 1) + 1 = k
            BY <5>1, <5>2, <1>ids
          <6> QED BY <6>1, <2>3
        <5> QED BY <5>1, <5>3, <2>3, <1>ids
      <4> QED BY <4>1, <4>2
    <3>2. ASSUME NEW i \in 1..Len(recentIds')
          PROVE  recentIds'[i] \in DOMAIN recentResults'
      <4>1. CASE i = Len(recentIds)
        <5>1. 1 \in 1..Len(recentIds)
          BY <1>ids, <2>1
        <5> QED BY <4>1, <5>1, <1>new, <2>3, <2>4
      <4>2. CASE i # Len(recentIds)
        <5>1. i \in 1..(Len(recentIds) - 1) /\ i + 1 \in 1..Len(recentIds) /\ i + 1 # 1
              /\ 1 \in 1..Len(recentIds)
          BY <4>2, <3>2, <1>ids, <2>3
        <5>2. recentIds'[i] = recentIds[i + 1] /\ recentIds[i + 1] # recentIds[1]
          BY <5>1, <2>3, <2>5
        <5> QED BY <5>1, <5>2, <2>4, <2>6
      <4> QED BY <4>1, <4>2
    <3> QED BY <3>1, <3>2
  <2>8. \A i, j \in 1..Len(recentIds') : recentIds'[i] = recentIds'[j] => i = j
    BY <1>ids, <1>new, <2>3, <2>5
  <2>9. Len(recentIds') <= DedupeCacheSize
    BY <2>1, <2>3
  <2> QED BY <1>file, <2>7, <2>8, <2>9 DEF CacheCoherent
<1> QED BY <1>1, <1>2
-----------------------------------------------------------------------------
\* The inductive invariant: the three parts need each other, the cache for
\* the duplicates' answers, the queue for what an answer reports.
HostInv == HostTypeOK /\ CacheCoherent /\ QueueCoherent

CacheTypeOK ==
  /\ recentIds \in Seq(MsgIds)
  /\ DOMAIN recentResults \subseteq MsgIds
  /\ \A id \in DOMAIN recentResults : recentResults[id] \in Acks \cup Nacks

\* What every handler owes besides its own effect.
CachePart == CacheTypeOK /\ CacheCoherent /\ reply \in Replies

ControlPart ==
  /\ mode \in Modes
  /\ queue \in Seq(Jobs) /\ Len(queue) <= MaxQueueDepth
  /\ schedulerState \in {"IDLE", "ACTIVE"}
  /\ linkState \in LinkStates
  /\ synced \in BOOLEAN
  /\ capabilities \in SUBSET SupportedCapabilities
  /\ heartbeatAge \in Ages
  /\ busy \in BOOLEAN
  /\ QueueCoherent

\* The inductive invariant is a part about the dedupe cache and a part about
\* mode, queue and link.
LEMMA HostInvParts == HostInv <=> CachePart /\ ControlPart
BY DEF HostInv, CachePart, ControlPart, CacheTypeOK, HostTypeOK

\* A fresh request that gets a well-formed answer under its own id.
LEMMA AnswerStep ==
  ASSUME HostInv, NEW req \in Requests, Fresh(req),
         NEW answer \in Acks \cup Nacks, answer.id = req.id,
         Answer(req.id, answer)
  PROVE  CachePart'
<1>1. Remember(req.id, answer) /\ req.id \in MsgIds /\ req.id \notin DOMAIN recentResults
  BY RequestFacts DEF Answer, Fresh
<1>2. HostTypeOK /\ CacheCoherent
  BY DEF HostInv
<1>3. CacheTypeOK'
  BY <1>1, <1>2, RememberType DEF CacheTypeOK
<1>4. CacheCoherent'
  BY <1>1, <1>2, RememberCoherent
<1>5. reply' \in Replies
  BY DEF Answer, Replies
<1> QED BY <1>3, <1>4, <1>5 DEF CachePart

\* Every rejection is an answer that leaves mode, queue and link data alone.
LEMMA RejectStep ==
  ASSUME HostInv, NEW req \in Requests, Fresh(req), NEW code \in 1..7, Reject(req, code)
  PROVE  HostInv'
<1>1. CachePart'
  <2>1. NackFor(req.id, code) \in Acks \cup Nacks /\ NackFor(req.id, code).id = req.id
    BY AnswerFacts, RequestFacts
  <2> QED BY <2>1, AnswerStep DEF Reject
<1>2. ControlPart'
  BY RefreshedLinkType DEF Reject, HostInv, HostTypeOK, QueueCoherent, ControlPart,
     controlVars, linkVars
<1> QED BY <1>1, <1>2, HostInvParts, PTL

\* A failed argument check is such a rejection.
LEMMA BadArgsStep ==
  ASSUME HostInv, NEW req \in Requests, Fresh(req), BadArgs(req)
  PROVE  HostInv'
BY RequestFacts, RejectStep DEF BadArgs

\* Putting the queue q and the scheduler state derived from it in place, and
\* answering with both.
LEMMA SetQueueStep ==
  ASSUME HostInv, NEW req \in Requests, Fresh(req),
         NEW m \in Modes, NEW q \in Seq(Jobs), Len(q) <= MaxQueueDepth,
         NEW c \in BOOLEAN, NEW l \in LinkStates,
         SetQueue(q), mode' = m, linkState' = l,
         Answer(req.id, AckFor(req.id, m, q, c, l)),
         synced' \in BOOLEAN, capabilities' \in SUBSET SupportedCapabilities,
         heartbeatAge' \in Ages, busy' = busy,
         heartbeatAge' # Never => synced',
         q # <<>> => synced' /\ heartbeatAge' # Never
  PROVE  HostInv'
<1>1. CachePart'
  <2>1. AckFor(req.id, m, q, c, l) \in Acks \cup Nacks /\ AckFor(req.id, m, q, c, l).id = req.id
    BY AnswerFacts, RequestFacts
  <2> QED BY <2>1, AnswerStep
<1>2. ControlPart'
  BY DEF SetQueue, HostInv, HostTypeOK, QueueCoherent, ControlPart
<1> QED BY <1>1, <1>2, HostInvParts, PTL
-----------------------------------------------------------------------------
\* One lemma per handler: it preserves the invariant.
LEMMA DuplicateStep ==
  ASSUME HostInv, NEW req \in Requests, HandleDuplicate(req)
  PROVE  HostInv'
<1>1. reply' \in Replies
  BY DEF HostInv, HostTypeOK, HandleDuplicate, Replies
<1> QED BY <1>1, RefreshedLinkType
        DEF HandleDuplicate, HostInv, HostTypeOK, CacheCoherent, QueueCoherent,
            controlVars, linkVars, cacheVars

\* HELLO synchronises and makes the link SYNCING.
LEMMA HelloStep ==
  ASSUME HostInv, NEW req \in Requests, Hello(req)
  PROVE  HostInv'
<1>1. Fresh(req) /\ req.cmd = "HELLO"
  BY DEF Hello, Dispatch
<1>2. CASE BadArgs(req)
  BY <1>1, <1>2, BadArgsStep
<1>3. CASE ~BadArgs(req)
  <2>1. /\ synced' = TRUE
        /\ capabilities' = req.arg \cap SupportedCapabilities
        /\ linkState' = "SYNCING"
        /\ SetQueue(queue)
        /\ Answer(req.id, AckFor(req.id, mode, queue, FALSE, "SYNCING"))
        /\ mode' = mode /\ heartbeatAge' = heartbeatAge /\ busy' = busy
    BY <1>3 DEF Hello
  <2>2. /\ mode \in Modes /\ queue \in Seq(Jobs) /\ Len(queue) <= MaxQueueDepth
        /\ heartbeatAge \in Ages
        /\ queue # <<>> => heartbeatAge # Never
    BY DEF HostInv, HostTypeOK, QueueCoherent
  <2>3. "SYNCING" \in LinkStates /\ FALSE \in BOOLEAN /\ TRUE \in BOOLEAN
        /\ req.arg \cap SupportedCapabilities \in SUBSET SupportedCapabilities
    BY DEF LinkStates
  <2> QED BY <1>1, <2>1, <2>2, <2>3, SetQueueStep
<1> QED BY <1>2, <1>3

\* HEARTBEAT is refused before HELLO and otherwise makes the link READY.
LEMMA HeartbeatStep ==
  ASSUME HostInv, NEW req \in Requests, Heartbeat(req)
  PROVE  HostInv'
<1>1. Fresh(req)
  BY DEF Heartbeat, Dispatch
<1>2. CASE BadArgs(req)
  BY <1>1, <1>2, BadArgsStep
<1>3. CASE Reject(req, BadTransition)
  BY <1>1, <1>3, RejectStep DEF BadTransition
<1>4. CASE ~BadArgs(req) /\ ~Reject(req, BadTransition)
  <2>1. /\ synced
        /\ heartbeatAge' = 0
        /\ linkState' = "READY"
        /\ SetQueue(queue)
        /\ Answer(req.id, AckFor(req.id, mode, queue, FALSE, "READY"))
        /\ mode' = mode /\ synced' = synced /\ capabilities' = capabilities /\ busy' = busy
    BY <1>4 DEF Heartbeat
  <2>2. /\ mode \in Modes /\ queue \in Seq(Jobs) /\ Len(queue) <= MaxQueueDepth
        /\ synced \in BOOLEAN /\ capabilities \in SUBSET SupportedCapabilities
    BY DEF HostInv, HostTypeOK
  <2>3. "READY" \in LinkStates /\ FALSE \in BOOLEAN /\ 0 \in Ages /\ 0 # Never
    BY HostAssumption DEF LinkStates, Ages, AgeCap, Never
  <2> QED BY <1>1, <2>1, <2>2, <2>3, SetQueueStep
<1> QED BY <1>2, <1>3, <1>4

\* SET_MODE changes mode and queue along the policy, or is refused.
LEMMA SetModeStep ==
  ASSUME HostInv, NEW req \in Requests, SetMode(req)
  PROVE  HostInv'
<1>1. Fresh(req) /\ req.cmd = "SET_MODE"
  BY DEF SetMode, Dispatch
<1>2. CASE BadArgs(req)
  BY <1>1, <1>2, BadArgsStep
<1>3. CASE Reject(req, BadTransition)
  BY <1>1, <1>3, RejectStep DEF BadTransition
<1>4. CASE ~BadArgs(req) /\ ~Reject(req, BadTransition)
  <2> DEFINE clears == req.arg = "SAFE" \/ req.arg # mode
             q      == IF clears THEN <<>> ELSE queue
             c      == clears /\ queue # <<>>
  <2>1. /\ SetQueue(q)
        /\ Answer(req.id, AckFor(req.id, req.arg, q, c, RefreshedLink))
        /\ mode' = req.arg
        /\ linkState' = RefreshedLink
        /\ synced' = synced /\ capabilities' = capabilities
        /\ heartbeatAge' = heartbeatAge /\ busy' = busy
    BY <1>4 DEF SetMode, linkVars
  <2>2. /\ synced \in BOOLEAN /\ capabilities \in SUBSET SupportedCapabilities
        /\ heartbeatAge \in Ages
        /\ heartbeatAge # Never => synced
    BY DEF HostInv, HostTypeOK, QueueCoherent
  <2>3. q \in Seq(Jobs) /\ Len(q) <= MaxQueueDepth
        /\ (q # <<>> => synced /\ heartbeatAge # Never)
    BY HostAssumption DEF HostInv, HostTypeOK, QueueCoherent
  <2>4. c \in BOOLEAN /\ req.arg \in Modes /\ RefreshedLink \in LinkStates
    BY <1>1, RequestFacts, RefreshedLinkType
  <2> HIDE DEF q, c
  <2> QED BY <1>1, <2>1, <2>2, <2>3, <2>4, SetQueueStep
<1> QED BY <1>2, <1>3, <1>4

\* SCHED appends within the capacity, or is refused.
LEMMA SchedStep ==
  ASSUME HostInv, NEW req \in Requests, Sched(req)
  PROVE  HostInv'
<1>1. Fresh(req) /\ req.cmd = "SCHED"
  BY DEF Sched, Dispatch, HasRoom
<1>2. CASE BadArgs(req)
  BY <1>1, <1>2, BadArgsStep
<1>3. CASE \E code \in 1..7 : Reject(req, code)
  BY <1>1, <1>3, RejectStep
<1>4. CASE ~BadArgs(req) /\ ~\E code \in 1..7 : Reject(req, code)
  <2> DEFINE q == Append(queue, req.arg)
  <2>1. /\ RefreshedLink \in {"READY", "DEGRADED"}
        /\ Len(queue) < MaxQueueDepth
        /\ SetQueue(q)
        /\ Answer(req.id, AckFor(req.id, mode, q, FALSE, RefreshedLink))
        /\ linkState' = RefreshedLink
        /\ mode' = mode /\ synced' = synced /\ capabilities' = capabilities
        /\ heartbeatAge' = heartbeatAge /\ busy' = busy
    <3>1. BadTransition \in 1..7 /\ Busy \in 1..7 /\ QueueFull \in 1..7
      BY DEF BadTransition, Busy, QueueFull
    <3> QED BY <1>4, <3>1 DEF Sched, HasRoom, linkVars
  <2>2. /\ mode \in Modes /\ synced \in BOOLEAN
        /\ capabilities \in SUBSET SupportedCapabilities
        /\ heartbeatAge \in Ages
        /\ heartbeatAge # Never => synced
    BY DEF HostInv, HostTypeOK, QueueCoherent
  <2>3. q \in Seq(Jobs) /\ Len(q) <= MaxQueueDepth
    BY <1>1, <2>1, RequestFacts, HostAssumption DEF HostInv, HostTypeOK
  <2>4. synced /\ heartbeatAge # Never
    BY <2>1 DEF RefreshedLink
  <2>5. FALSE \in BOOLEAN /\ RefreshedLink \in LinkStates
    BY RefreshedLinkType
  <2> HIDE DEF q
  <2> QED BY <1>1, <2>1, <2>2, <2>3, <2>4, <2>5, SetQueueStep
<1> QED BY <1>2, <1>3, <1>4

\* GET_STATE re-derives the scheduler state from the queue.
LEMMA GetStateStep ==
  ASSUME HostInv, NEW req \in Requests, GetState(req)
  PROVE  HostInv'
<1>1. Fresh(req)
  BY DEF GetState, Dispatch
<1>2. CASE BadArgs(req)
  BY <1>1, <1>2, BadArgsStep
<1>3. CASE ~BadArgs(req)
  <2>1. /\ SetQueue(queue)
        /\ Answer(req.id, AckFor(req.id, mode, queue, FALSE, RefreshedLink))
        /\ linkState' = RefreshedLink
        /\ mode' = mode /\ synced' = synced /\ capabilities' = capabilities
        /\ heartbeatAge' = heartbeatAge /\ busy' = busy
    BY <1>3 DEF GetState, linkVars
  <2>2. /\ mode \in Modes /\ queue \in Seq(Jobs) /\ Len(queue) <= MaxQueueDepth
        /\ synced \in BOOLEAN /\ capabilities \in SUBSET SupportedCapabilities
        /\ heartbeatAge \in Ages
        /\ heartbeatAge # Never => synced
        /\ queue # <<>> => synced /\ heartbeatAge # Never
    BY DEF HostInv, HostTypeOK, QueueCoherent
  <2>3. FALSE \in BOOLEAN /\ RefreshedLink \in LinkStates
    BY RefreshedLinkType
  <2> QED BY <1>1, <2>1, <2>2, <2>3, SetQueueStep
<1> QED BY <1>2, <1>3

\* RESET_QUEUE empties the queue.
LEMMA ResetQueueStep ==
  ASSUME HostInv, NEW req \in Requests, ResetQueue(req)
  PROVE  HostInv'
<1>1. Fresh(req)
  BY DEF ResetQueue, Dispatch
<1>2. CASE BadArgs(req)
  BY <1>1, <1>2, BadArgsStep
<1>3. CASE ~BadArgs(req)
  <2> DEFINE c == queue # <<>>
  <2>1. /\ SetQueue(<<>>)
        /\ Answer(req.id, AckFor(req.id, mode, <<>>, c, RefreshedLink))
        /\ linkState' = RefreshedLink
        /\ mode' = mode /\ synced' = synced /\ capabilities' = capabilities
        /\ heartbeatAge' = heartbeatAge /\ busy' = busy
    BY <1>3 DEF ResetQueue, linkVars
  <2>2. /\ mode \in Modes
        /\ synced \in BOOLEAN /\ capabilities \in SUBSET SupportedCapabilities
        /\ heartbeatAge \in Ages
        /\ heartbeatAge # Never => synced
    BY DEF HostInv, HostTypeOK, QueueCoherent
  <2>3. /\ c \in BOOLEAN /\ RefreshedLink \in LinkStates
        /\ <<>> \in Seq(Jobs) /\ Len(<<>>) <= MaxQueueDepth
    BY RefreshedLinkType, HostAssumption
  <2> HIDE DEF c
  <2> QED BY <1>1, <2>1, <2>2, <2>3, SetQueueStep
<1> QED BY <1>2, <1>3

\* handle_frame preserves the invariant on every frame that parses.
LEMMA RequestStep ==
  ASSUME HostInv, NEW req \in Requests, HandleRequest(req)
  PROVE  HostInv'
<1>1. CASE HandleBusy(req)
  BY <1>1, RejectStep DEF HandleBusy, Busy
<1>2. CASE HandleUnknown(req)
  BY <1>2, RejectStep DEF HandleUnknown, UnknownCommand, Dispatch
<1> QED BY <1>1, <1>2, DuplicateStep, HelloStep, HeartbeatStep, SetModeStep, SchedStep,
           GetStateStep, ResetQueueStep DEF HandleRequest

\* Every step of the host preserves the invariant.
LEMMA HostStepInv ==
  ASSUME HostInv, [HostNext]_hostVars
  PROVE  HostInv'
<1>1. CASE \E req \in Requests : HandleRequest(req)
  BY <1>1, RequestStep
<1>2. CASE HandleMalformed \/ HandleInvalidToken
  <2>1. reply' \in Replies /\ linkState' \in LinkStates
    BY <1>2, RefreshedLinkType DEF HandleMalformed, HandleInvalidToken, Replies
  <2>2. UNCHANGED <<controlVars, linkVars, busy, cacheVars>>
    BY <1>2 DEF HandleMalformed, HandleInvalidToken
  <2> QED BY <2>1, <2>2 DEF HostInv, HostTypeOK, CacheCoherent, QueueCoherent,
                           controlVars, linkVars, cacheVars
<1>3. CASE Tick
  <2>1. heartbeatAge' \in Ages /\ heartbeatAge' # Never /\ heartbeatAge # Never
    BY <1>3, HostAssumption DEF Tick, Ages, AgeCap, Never
  <2> QED BY <1>3, <2>1
          DEF Tick, HostInv, HostTypeOK, CacheCoherent, QueueCoherent, controlVars, cacheVars
<1>4. CASE ToggleBusy
  BY <1>4 DEF ToggleBusy, HostInv, HostTypeOK, CacheCoherent, QueueCoherent,
              controlVars, linkVars, cacheVars
<1>5. CASE UNCHANGED hostVars
  BY <1>5 DEF hostVars, HostInv, HostTypeOK, CacheCoherent, QueueCoherent,
              controlVars, linkVars, cacheVars
<1> QED BY <1>1, <1>2, <1>3, <1>4, <1>5 DEF HostNext

\* A new host satisfies the invariant.
LEMMA HostInitInv == HostInit => HostInv
<1> SUFFICES ASSUME HostInit PROVE HostInv
  OBVIOUS
<1>1. recentIds = <<>> /\ recentResults = <<>> /\ DOMAIN recentResults = {}
  BY DEF HostInit
<1>2. CacheCoherent
  BY <1>1, HostAssumption DEF CacheCoherent
<1>3. HostTypeOK
  <2>1. queue \in Seq(Jobs) /\ Len(queue) <= MaxQueueDepth
    BY HostAssumption DEF HostInit
  <2>2. recentIds \in Seq(MsgIds)
    BY <1>1
  <2>3. reply \in Replies /\ linkState \in LinkStates /\ heartbeatAge \in Ages
    BY DEF HostInit, Replies, LinkStates, Ages
  <2> QED BY <1>1, <2>1, <2>2, <2>3 DEF HostInit, HostTypeOK
<1>4. QueueCoherent
  BY DEF HostInit, QueueCoherent
<1> QED BY <1>2, <1>3, <1>4 DEF HostInv

\* The invariant holds in every reachable state of OpenSpecV3Host.
THEOREM HostInvariant == HostSpec => []HostInv
<1>1. HostInit => HostInv
  BY HostInitInv
<1>2. HostInv /\ [HostNext]_hostVars => HostInv'
  BY HostStepInv
<1> QED BY <1>1, <1>2, PTL DEF HostSpec

\* Every field of OpenSpecV3Host keeps to its values, for any parameters.
THEOREM HostTypeCorrect == HostSpec => []HostTypeOK
<1>1. HostInv => HostTypeOK
  BY DEF HostInv
<1> QED BY <1>1, HostInvariant, PTL

\* The two structures of the dedupe cache never drift apart, whatever the
\* cache size and however many ids are evicted and reused.
THEOREM CacheStaysCoherent == HostSpec => []CacheCoherent
<1>1. HostInv => CacheCoherent
  BY DEF HostInv
<1> QED BY <1>1, HostInvariant, PTL

\* scheduler_state, queue and handshake never disagree.
THEOREM QueueStaysCoherent == HostSpec => []QueueCoherent
<1>1. HostInv => QueueCoherent
  BY DEF HostInv
<1> QED BY <1>1, HostInvariant, PTL
-----------------------------------------------------------------------------
(* No effect goes unrecorded.                                              *)

Recorded ==
  <<mode, queue, synced>>' # <<mode, queue, synced>>
    => \E id \in MsgIds \ DOMAIN recentResults :
         /\ id \in DOMAIN recentResults'
         /\ recentResults'[id] = reply'
         /\ reply' = AckFor(id, mode', queue', reply'.cleared, linkState')

\* The id of a fresh request is in the cache after its answer: what is
\* evicted for it is an older id, never itself.
LEMMA AnswerIsFiled ==
  ASSUME HostInv, NEW req \in Requests, Fresh(req), NEW answer, Answer(req.id, answer)
  PROVE  /\ req.id \in MsgIds \ DOMAIN recentResults
         /\ req.id \in DOMAIN recentResults'
         /\ recentResults'[req.id] = answer
         /\ reply' = answer
<1>1. req.id \in MsgIds /\ req.id \notin DOMAIN recentResults
  BY RequestFacts DEF Fresh
<1>2. ~(Len(recentIds) < DedupeCacheSize) => Head(recentIds) \in DOMAIN recentResults
  <2>1. SUFFICES ASSUME ~(Len(recentIds) < DedupeCacheSize)
                 PROVE  Head(recentIds) \in DOMAIN recentResults
    OBVIOUS
  <2>2. recentIds \in Seq(MsgIds) /\ Len(recentIds) \in Nat \ {0}
    BY <2>1, HostAssumption DEF HostInv, HostTypeOK
  <2>3. 1 \in 1..Len(recentIds) /\ Head(recentIds) = recentIds[1]
    BY <2>2
  <2> QED BY <2>3 DEF HostInv, CacheCoherent
<1> QED BY <1>1, <1>2 DEF Answer, Remember

\* An effect that is answered under a fresh id is on record.
LEMMA AckedEffect ==
  ASSUME HostInv, NEW req \in Requests, Fresh(req), NEW m, NEW q, NEW c, NEW l,
         mode' = m, queue' = q, linkState' = l,
         Answer(req.id, AckFor(req.id, m, q, c, l))
  PROVE  Recorded
<1>1. AckFor(req.id, m, q, c, l).cleared = c
  BY DEF AckFor
<1> QED BY <1>1, AnswerIsFiled DEF Recorded

\* A rejection changes neither mode nor queue nor handshake.
LEMMA RejectHasNoEffect ==
  ASSUME NEW req, NEW code, Reject(req, code)
  PROVE  UNCHANGED <<mode, queue, synced>>
BY DEF Reject, controlVars, linkVars

\* A request that changes mode, queue or handshake is on record.
LEMMA RequestIsRecorded ==
  ASSUME HostInv, NEW req \in Requests, HandleRequest(req)
  PROVE  Recorded
<1>1. CASE UNCHANGED <<mode, queue, synced>>
  BY <1>1 DEF Recorded
<1>2. CASE ~UNCHANGED <<mode, queue, synced>>
  <2>1. /\ ~HandleDuplicate(req) /\ ~HandleBusy(req) /\ ~HandleUnknown(req)
        /\ ~BadArgs(req) /\ \A code : ~Reject(req, code)
    BY <1>2, RejectHasNoEffect
       DEF HandleDuplicate, HandleBusy, HandleUnknown, BadArgs, controlVars, linkVars
  <2>2. CASE Hello(req)
    BY <2>1, <2>2, AckedEffect DEF Hello, Dispatch, SetQueue
  <2>3. CASE Heartbeat(req)
    BY <2>1, <2>3, AckedEffect DEF Heartbeat, Dispatch, SetQueue
  <2>4. CASE SetMode(req)
    BY <2>1, <2>4, AckedEffect DEF SetMode, Dispatch, SetQueue
  <2>5. CASE Sched(req)
    BY <2>1, <2>5, AckedEffect DEF Sched, Dispatch, SetQueue
  <2>6. CASE GetState(req)
    BY <2>1, <2>6, AckedEffect DEF GetState, Dispatch, SetQueue
  <2>7. CASE ResetQueue(req)
    BY <2>1, <2>7, AckedEffect DEF ResetQueue, Dispatch, SetQueue
  <2> QED BY <2>1, <2>2, <2>3, <2>4, <2>5, <2>6, <2>7 DEF HandleRequest
<1> QED BY <1>1, <1>2

\* Whatever changes the endpoint is filed under a new id with an ACK of the
\* state reached, so that a retry of it is answered and not executed.
THEOREM EffectsStayRemembered == HostSpec => EffectsAreRemembered
<1>1. HostInv /\ [HostNext]_hostVars => [Recorded]_hostVars
  <2> SUFFICES ASSUME HostInv, HostNext PROVE Recorded
    BY DEF hostVars, controlVars, linkVars
  <2>1. CASE \E req \in Requests : HandleRequest(req)
    BY <2>1, RequestIsRecorded
  <2>2. CASE HandleMalformed \/ HandleInvalidToken \/ Tick \/ ToggleBusy
    BY <2>2 DEF HandleMalformed, HandleInvalidToken, Tick, ToggleBusy, Recorded,
                controlVars, linkVars
  <2> QED BY <2>1, <2>2 DEF HostNext
<1>2. HostSpec => [][Recorded]_hostVars
  BY <1>1, HostInvariant, PTL DEF HostSpec
<1> QED BY <1>2 DEF EffectsAreRemembered, Recorded
-----------------------------------------------------------------------------
(* The host implements the abstract endpoint.                              *)

\* Emptying the queue is a drain of all its jobs, or no step at all.
LEMMA ClearIsDrain ==
  ASSUME queue \in Seq(Jobs), queue' = <<>>, mode' = mode
  PROVE  [MQ!MQNext]_(MQ!mqVars)
<1>1. CASE queue = <<>>
  BY <1>1 DEF MQ!mqVars
<1>2. CASE queue # <<>>
  <2>1. Len(queue) \in 1..Len(queue) /\ SubSeq(queue, Len(queue) + 1, Len(queue)) = <<>>
    BY <1>2
  <2>2. MQ!Drain(Len(queue))
    BY <2>1 DEF MQ!Drain
  <2> QED BY <2>1, <2>2 DEF MQ!MQNext
<1> QED BY <1>1, <1>2

\* A SET_MODE that changes anything is a mode change or a drain.
LEMMA SetModeRefines ==
  ASSUME HostInv, NEW req \in Requests, SetMode(req), ~UNCHANGED <<mode, queue>>
  PROVE  [MQ!MQNext]_(MQ!mqVars)
<1>1. /\ req.arg \in Modes /\ TransitionAllowed(mode, req.arg)
      /\ mode' = req.arg
      /\ queue' = IF req.arg = "SAFE" \/ req.arg # mode THEN <<>> ELSE queue
  BY RequestFacts, RejectHasNoEffect DEF SetMode, SetQueue, Dispatch, BadArgs
<1>2. CASE req.arg = mode
  BY <1>1, <1>2, ClearIsDrain DEF HostInv, HostTypeOK
<1>3. CASE req.arg # mode
  <2>1. MQ!TransitionAllowed(mode, req.arg) /\ req.arg \in MQ!Modes
    BY <1>1 DEF TransitionAllowed, ModeTransitions, Modes,
                MQ!TransitionAllowed, MQ!ModeTransitions, MQ!Modes
  <2>2. MQ!ChangeMode(req.arg)
    BY <1>1, <1>3, <2>1 DEF MQ!ChangeMode
  <2> QED BY <2>1, <2>2 DEF MQ!MQNext
<1> QED BY <1>2, <1>3

\* A SCHED that changes anything admits its job.
LEMMA SchedRefines ==
  ASSUME HostInv, NEW req \in Requests, Sched(req), ~UNCHANGED <<mode, queue>>
  PROVE  [MQ!MQNext]_(MQ!mqVars)
<1>1. req.arg \in Jobs /\ Len(queue) < MaxQueueDepth
      /\ queue' = Append(queue, req.arg) /\ mode' = mode
  BY RequestFacts, RejectHasNoEffect DEF Sched, HasRoom, SetQueue, Dispatch, BadArgs
<1> QED BY <1>1 DEF MQ!MQNext, MQ!Admit

\* Every step of the host is a step of the abstract endpoint or a stutter.
LEMMA HostStepRefines ==
  ASSUME HostInv, [HostNext]_hostVars
  PROVE  [MQ!MQNext]_(MQ!mqVars)
<1>1. CASE UNCHANGED <<mode, queue>>
  BY <1>1 DEF MQ!mqVars
<1>2. CASE ~UNCHANGED <<mode, queue>>
  <2>1. PICK req \in Requests : HandleRequest(req)
    BY <1>2 DEF HostNext, HandleMalformed, HandleInvalidToken, Tick, ToggleBusy,
                hostVars, controlVars
  <2>2. SetMode(req) \/ Sched(req) \/ ResetQueue(req)
    BY <1>2, <2>1, RejectHasNoEffect
       DEF HandleRequest, HandleDuplicate, HandleBusy, HandleUnknown, Hello, Heartbeat,
           GetState, SetQueue, BadArgs, controlVars
  <2>3. CASE ResetQueue(req)
    <3>1. queue' = <<>> /\ mode' = mode
      BY <1>2, <2>3, RejectHasNoEffect DEF ResetQueue, SetQueue, BadArgs
    <3> QED BY <3>1, ClearIsDrain DEF HostInv, HostTypeOK
  <2> QED BY <1>2, <2>2, <2>3, SetModeRefines, SchedRefines
<1> QED BY <1>1, <1>2

\* OpenSpecV3Host implements the abstract endpoint for every queue depth,
\* every cache size and every set of requests.
THEOREM HostImplementsModeQueue == HostSpec => RefinesModeQueue
<1>1. HostInit => MQ!MQInit
  BY DEF HostInit, MQ!MQInit, Modes, MQ!Modes
<1>2. HostInv /\ [HostNext]_hostVars => [MQ!MQNext]_(MQ!mqVars)
  BY HostStepRefines
<1>3. HostSpec => MQ!MQSpec
  BY <1>1, <1>2, HostInvariant, PTL DEF HostSpec, MQ!MQSpec
<1> QED BY <1>3 DEF RefinesModeQueue
=============================================================================
