-------------------------------- MODULE Host --------------------------------
(***************************************************************************)
(* OpenSpecV3Host (protocol/host.py): the protocol endpoint that owns mode *)
(* and queue.  It answers one frame at a time; handle_frame first          *)
(* recomputes the link state from the age of the last heartbeat, answers a *)
(* repeated msg_id from the dedupe cache, and otherwise runs the handler   *)
(* of the command and remembers its answer.                                *)
(*                                                                         *)
(* A request is [id, cmd, flaw, arg]: flaw names the argument check of the *)
(* handler that fails ("none" when all pass), arg the parsed argument.     *)
(* `reply` is the value the last handle_frame returned.                    *)
(***************************************************************************)
EXTENDS Integers, Sequences

CONSTANTS
  MsgIds,             (* message ids a peer uses                              *)
  Jobs,               (* (lane, trigger_mm) pairs within the wire ranges      *)
  OfferedSets,        (* non-empty capability sets a peer may offer in HELLO  *)
  SupportedCapabilities,
  MaxQueueDepth,      (* max_queue_depth                                      *)
  DedupeCacheSize,    (* dedupe_cache_size                                    *)
  HeartbeatTimeout    (* heartbeat_timeout_s, in ticks of the modelled clock  *)

ASSUME HostAssumption ==
  /\ MaxQueueDepth \in Nat \ {0}
  /\ DedupeCacheSize \in Nat \ {0}
  /\ HeartbeatTimeout \in Nat

VARIABLES
  mode, queue, schedulerState,
  linkState, synced, capabilities,
  heartbeatAge,       (* ticks since _last_heartbeat_at, capped; Never = None *)
  busy,
  recentResults,      (* _recent_results: msg_id -> cached answer             *)
  recentIds,          (* _recent_msg_ids: the same ids, oldest first          *)
  reply

controlVars == <<mode, queue, schedulerState>>
linkVars    == <<synced, capabilities, heartbeatAge>>
cacheVars   == <<recentResults, recentIds>>
hostVars    == <<controlVars, linkState, linkVars, busy, cacheVars, reply>>

-----------------------------------------------------------------------------
Modes      == {"AUTO", "MANUAL", "SAFE"}
LinkStates == {"DISCONNECTED", "SYNCING", "READY", "DEGRADED"}

\* MODE_TRANSITIONS of protocol/policy.py.
ModeTransitions ==
  [m \in Modes |-> IF m = "SAFE" THEN {"SAFE", "MANUAL"} ELSE Modes]

\* Mutant: the policy table is not consulted.
EveryTransitionAllowed(from, to) == to \in Modes

TransitionAllowed(from, to) == to \in ModeTransitions[from]

Never  == -1
AgeCap == HeartbeatTimeout + 1
Ages   == {Never} \cup 0..AgeCap

NoArg  == "-"
NoId   == 0

Requests ==
  [id : MsgIds, cmd : {"HELLO"}, flaw : {"none", "count", "range", "type"}, arg : OfferedSets]
    \cup [id : MsgIds, cmd : {"SET_MODE"}, flaw : {"none", "count", "type"}, arg : Modes]
    \cup [id : MsgIds, cmd : {"SCHED"}, flaw : {"none", "count", "type", "range"}, arg : Jobs]
    \cup [id : MsgIds, cmd : {"HEARTBEAT", "GET_STATE", "RESET_QUEUE", "UNKNOWN"},
          flaw : {"none", "count"}, arg : {NoArg}]

\* Canonical NACK codes (protocol/nack_codes.py).
UnknownCommand == 1
ArgCount       == 2
ArgRange       == 3
ArgType        == 4
BadTransition  == 5
QueueFull      == 6
Busy           == 7
MalformedFrame == 8

ArgFlawCode == [count |-> ArgCount, range |-> ArgRange, type |-> ArgType]

AckFor(id, m, q, cleared, link) ==
  [status |-> "ACK", id |-> id, mode |-> m, depth |-> Len(q),
   scheduler |-> IF q = <<>> THEN "IDLE" ELSE "ACTIVE",
   cleared |-> cleared, link |-> link]

NackFor(id, code) == [status |-> "NACK", id |-> id, code |-> code]

\* handle_frame has returned nothing yet, or raised PacketValidationError.
NoReply == [status |-> "NONE"]
Raised  == [status |-> "RAISED"]

Acks  == [status : {"ACK"}, id : MsgIds, mode : Modes, depth : 0..MaxQueueDepth,
          scheduler : {"IDLE", "ACTIVE"}, cleared : BOOLEAN, link : LinkStates]
Nacks == [status : {"NACK"}, id : MsgIds, code : 1..7]
MalformedNack == NackFor(NoId, MalformedFrame)
Replies == Acks \cup Nacks \cup {MalformedNack, NoReply, Raised}

-----------------------------------------------------------------------------
\* The dataclass defaults; the mode is a constructor argument.
HostInit ==
  /\ mode \in Modes
  /\ queue = <<>>
  /\ schedulerState = "IDLE"
  /\ linkState = "DISCONNECTED"
  /\ synced = FALSE
  /\ capabilities = {}
  /\ heartbeatAge = Never
  /\ busy = FALSE
  /\ recentResults = <<>>
  /\ recentIds = <<>>
  /\ reply = NoReply

\* _refresh_link_state: what handle_frame sets link_state to on entry.
RefreshedLink ==
  IF ~synced THEN "DISCONNECTED"
  ELSE IF heartbeatAge = Never THEN "SYNCING"
  ELSE IF heartbeatAge > HeartbeatTimeout THEN "DEGRADED"
  ELSE "READY"

\* Mutant: the oldest id is never evicted.
RememberedForever(id) == Append(recentIds, id)

\* _remember: the answer is cached; past the cache size the oldest id goes.
RememberedIds(id) ==
  IF Len(recentIds) < DedupeCacheSize
  THEN Append(recentIds, id)
  ELSE Append(Tail(recentIds), id)

Remember(id, answer) ==
  LET evicted == IF Len(recentIds) < DedupeCacheSize THEN {} ELSE {Head(recentIds)}
      kept    == (DOMAIN recentResults \cup {id}) \ evicted
  IN /\ recentIds' = RememberedIds(id)
     /\ recentResults' = [i \in kept |-> IF i = id THEN answer ELSE recentResults[i]]

\* Mutant: a handler returns its answer without remembering it.
AnswerOnly(id, answer) == /\ reply' = answer
                          /\ UNCHANGED cacheVars

Answer(id, answer) == /\ reply' = answer
                      /\ Remember(id, answer)

\* A handler that only answers: mode, queue and handshake stay as they are.
Reject(req, code) ==
  /\ Answer(req.id, NackFor(req.id, code))
  /\ linkState' = RefreshedLink
  /\ UNCHANGED <<controlVars, linkVars, busy>>

\* Mutant: the derived state is not recomputed.
SetQueueOnly(q) == queue' = q /\ UNCHANGED schedulerState

\* The queue and the derived scheduler_state, set together.
SetQueue(q) == /\ queue' = q
               /\ schedulerState' = IF q = <<>> THEN "IDLE" ELSE "ACTIVE"

-----------------------------------------------------------------------------
\* FrameFormatError: NACK 8 under id 0, which is never remembered.
HandleMalformed ==
  /\ linkState' = RefreshedLink
  /\ reply' = MalformedNack
  /\ UNCHANGED <<controlVars, linkVars, busy, cacheVars>>

\* An empty or over-long token raises PacketValidationError, which
\* handle_frame does not catch: the caller gets an exception, not an answer.
HandleInvalidToken ==
  /\ linkState' = RefreshedLink
  /\ reply' = Raised
  /\ UNCHANGED <<controlVars, linkVars, busy, cacheVars>>

\* A msg_id still in the cache gets the cached answer, whatever it carries.
HandleDuplicate(req) ==
  /\ req.id \in DOMAIN recentResults
  /\ reply' = recentResults[req.id]
  /\ linkState' = RefreshedLink
  /\ UNCHANGED <<controlVars, linkVars, busy, cacheVars>>

\* Mutant: the cache is not looked up.
AlwaysFresh(req) == TRUE

Fresh(req) == req.id \notin DOMAIN recentResults

HandleBusy(req) == Fresh(req) /\ busy /\ Reject(req, Busy)

\* The guard every handler below shares: not a repeat, not busy.
Dispatch(req, cmd) == Fresh(req) /\ ~busy /\ req.cmd = cmd

HandleUnknown(req) == Dispatch(req, "UNKNOWN") /\ Reject(req, UnknownCommand)

BadArgs(req) == /\ req.flaw # "none"
                /\ Reject(req, ArgFlawCode[req.flaw])

Hello(req) ==
  /\ Dispatch(req, "HELLO")
  /\ \/ BadArgs(req)
     \/ /\ req.flaw = "none"
        /\ synced' = TRUE
        /\ capabilities' = req.arg \cap SupportedCapabilities
        /\ linkState' = "SYNCING"
        /\ SetQueue(queue)
        /\ Answer(req.id, AckFor(req.id, mode, queue, FALSE, "SYNCING"))
        /\ UNCHANGED <<mode, heartbeatAge, busy>>

Heartbeat(req) ==
  /\ Dispatch(req, "HEARTBEAT")
  /\ \/ BadArgs(req)
     \/ req.flaw = "none" /\ ~synced /\ Reject(req, BadTransition)
     \/ /\ req.flaw = "none"
        /\ synced
        /\ heartbeatAge' = 0
        /\ linkState' = "READY"
        /\ SetQueue(queue)
        /\ Answer(req.id, AckFor(req.id, mode, queue, FALSE, "READY"))
        /\ UNCHANGED <<mode, synced, capabilities, busy>>

SetMode(req) ==
  /\ Dispatch(req, "SET_MODE")
  /\ \/ BadArgs(req)
     \/ /\ req.flaw = "none"
        /\ ~TransitionAllowed(mode, req.arg)
        /\ Reject(req, BadTransition)
     \/ /\ req.flaw = "none"
        /\ TransitionAllowed(mode, req.arg)
        /\ LET clears == req.arg = "SAFE" \/ req.arg # mode
               q      == IF clears THEN <<>> ELSE queue
           IN /\ SetQueue(q)
              /\ Answer(req.id, AckFor(req.id, req.arg, q, clears /\ queue # <<>>,
                                       RefreshedLink))
        /\ mode' = req.arg
        /\ linkState' = RefreshedLink
        /\ UNCHANGED <<linkVars, busy>>

\* Mutant: the capacity check is off by one.
HasRoomForOneMore == Len(queue) <= MaxQueueDepth

HasRoom == Len(queue) < MaxQueueDepth

\* _sched checks the handshake and the link before it looks at the
\* arguments; a DEGRADED link and the SAFE mode do not stop it.
Sched(req) ==
  /\ Dispatch(req, "SCHED")
  /\ \/ ~synced /\ Reject(req, BadTransition)
     \/ synced /\ RefreshedLink = "SYNCING" /\ Reject(req, Busy)
     \/ /\ RefreshedLink \in {"READY", "DEGRADED"}
        /\ \/ BadArgs(req)
           \/ /\ req.flaw = "none"
              /\ ~HasRoom
              /\ Reject(req, QueueFull)
           \/ /\ req.flaw = "none"
              /\ HasRoom
              /\ SetQueue(Append(queue, req.arg))
              /\ Answer(req.id, AckFor(req.id, mode, Append(queue, req.arg), FALSE,
                                       RefreshedLink))
              /\ linkState' = RefreshedLink
              /\ UNCHANGED <<mode, linkVars, busy>>

GetState(req) ==
  /\ Dispatch(req, "GET_STATE")
  /\ \/ BadArgs(req)
     \/ /\ req.flaw = "none"
        /\ SetQueue(queue)
        /\ Answer(req.id, AckFor(req.id, mode, queue, FALSE, RefreshedLink))
        /\ linkState' = RefreshedLink
        /\ UNCHANGED <<mode, linkVars, busy>>

ResetQueue(req) ==
  /\ Dispatch(req, "RESET_QUEUE")
  /\ \/ BadArgs(req)
     \/ /\ req.flaw = "none"
        /\ SetQueue(<<>>)
        /\ Answer(req.id, AckFor(req.id, mode, <<>>, queue # <<>>, RefreshedLink))
        /\ linkState' = RefreshedLink
        /\ UNCHANGED <<mode, linkVars, busy>>

\* handle_frame on a frame that parses.
HandleRequest(req) ==
  \/ HandleDuplicate(req)
  \/ HandleBusy(req)
  \/ HandleUnknown(req)
  \/ Hello(req)
  \/ Heartbeat(req)
  \/ SetMode(req)
  \/ Sched(req)
  \/ GetState(req)
  \/ ResetQueue(req)

-----------------------------------------------------------------------------
\* time.monotonic() advances; ages past the timeout are alike.
Tick ==
  /\ heartbeatAge \in 0..HeartbeatTimeout
  /\ heartbeatAge' = heartbeatAge + 1
  /\ UNCHANGED <<controlVars, linkState, synced, capabilities, busy, cacheVars, reply>>

\* The owner of the object flips its public busy flag.
ToggleBusy ==
  /\ busy' = ~busy
  /\ UNCHANGED <<controlVars, linkState, linkVars, cacheVars, reply>>

HostNext ==
  \/ \E req \in Requests : HandleRequest(req)
  \/ HandleMalformed
  \/ HandleInvalidToken
  \/ Tick
  \/ ToggleBusy

HostSpec == HostInit /\ [][HostNext]_hostVars

-----------------------------------------------------------------------------
\* The values the fields of the object range over.
HostTypeOK ==
  /\ mode \in Modes
  /\ queue \in Seq(Jobs) /\ Len(queue) <= MaxQueueDepth
  /\ schedulerState \in {"IDLE", "ACTIVE"}
  /\ linkState \in LinkStates
  /\ synced \in BOOLEAN
  /\ capabilities \in SUBSET SupportedCapabilities
  /\ heartbeatAge \in Ages
  /\ busy \in BOOLEAN
  /\ recentIds \in Seq(MsgIds)
  /\ DOMAIN recentResults \subseteq MsgIds
  /\ \A id \in DOMAIN recentResults : recentResults[id] \in Acks \cup Nacks
  /\ reply \in Replies

\* _recent_results and _recent_msg_ids are two structures kept in step by
\* hand: they hold the same ids, each id once, never more than the cache
\* size, and every cached answer carries the id it is filed under.
CacheCoherent ==
  /\ DOMAIN recentResults = {recentIds[i] : i \in 1..Len(recentIds)}
  /\ \A i, j \in 1..Len(recentIds) : recentIds[i] = recentIds[j] => i = j
  /\ Len(recentIds) <= DedupeCacheSize
  /\ \A id \in DOMAIN recentResults : recentResults[id].id = id

\* The stored scheduler_state never disagrees with the queue it is derived
\* from, and nothing is queued before HELLO and HEARTBEAT have both been
\* accepted.
QueueCoherent ==
  /\ schedulerState = "ACTIVE" <=> queue # <<>>
  /\ queue # <<>> => synced /\ heartbeatAge # Never
  /\ heartbeatAge # Never => synced

\* No effect goes unrecorded: whenever mode, queue or handshake change, the
\* same call files a new id with an ACK that describes the state reached, so
\* a retry of that id is answered from the cache and not executed again.
EffectsAreRemembered ==
  [][<<mode, queue, synced>>' # <<mode, queue, synced>>
       => \E id \in MsgIds \ DOMAIN recentResults :
            /\ id \in DOMAIN recentResults'
            /\ recentResults'[id] = reply'
            /\ reply' = AckFor(id, mode', queue', reply'.cleared, linkState')]_hostVars

\* The host keeps the promise of the abstract endpoint: FIFO admission up to
\* the depth, policy-conforming mode changes, each with an empty queue.
MQ == INSTANCE ModeQueue
RefinesModeQueue == MQ!MQSpec
=============================================================================
