----------------------------- MODULE SerialLink -----------------------------
(***************************************************************************)
(* SerialMcuTransport (bench/serial_transport.py) talking to a host        *)
(* endpoint (module Host) over a serial cable.                             *)
(*                                                                         *)
(* The transport is one thread: an API call (send or send_command) writes  *)
(* a chain of frames, and after each waits in readline for one line.  pc   *)
(* names the frame it waits for.  readline may time out, and then the same *)
(* frame is written again under the same msg_id; whatever line is read     *)
(* next is taken as the answer: its msg_id is never looked at.             *)
(*                                                                         *)
(* A SCHED call carries its own call number as its job, so a job in the    *)
(* host's queue tells which call put it there.                             *)
(***************************************************************************)
EXTENDS Host

CONSTANTS
  MaxRetries,      (* config.max_retries                                     *)
  MaxCalls,        (* bound: API calls                                       *)
  MaxUnplugs,      (* bound: times the cable is pulled                       *)
  MaxGarbles,      (* bound: lines damaged by noise                          *)
  MaxSessions,     (* bound: transports opened on the port                   *)
  MaxHostResets,   (* bound: resets of the endpoint                          *)
  MaxLates,        (* bound: readlines that give up on an answer under way   *)
  BootModes        (* modes the endpoint can boot in                         *)

\* A call hands out at most nine ids, and a second transport starts over.
ASSUME LinkAssumption ==
  /\ MaxCalls \in Nat /\ MaxRetries \in Nat
  /\ 1..(9 * MaxCalls) \subseteq MsgIds /\ 1..MaxCalls \subseteq Jobs
  /\ OfferedSets # {} /\ BootModes \subseteq Modes

VARIABLES
  pc,                 \* "idle", or which answer the transport waits for
  inflight,           \* the frame last written (_last_in_flight)
  attempt,            \* writes of it so far, less one
  nextId,             \* _next_msg_id
  handshakeComplete,
  sentAge, okAge,     \* age of _last_heartbeat_sent_at / _ok_at at call start
  syncRequired,       \* _state_sync_required
  expectedMode,
  lastDepth,          \* _last_queue_depth
  fault,              \* _last_fault_state
  uncertain,          \* _last_in_flight.uncertain_outcome
  calls,              \* the API calls made: [cmd, arg, result]
  toHost, toClient, plugged,
  effects,            \* history: how often the job of a call was enqueued
  late,               \* readlines that gave up too early
  unplugs, garbles, sessions, hostResets

linkTimers  == <<handshakeComplete, sentAge, okAge, syncRequired>>
mirrorVars  == <<expectedMode, lastDepth, fault>>
frameVars   == <<pc, inflight, attempt, nextId, uncertain>>
wireVars    == <<toHost, toClient, plugged>>
budgetVars  == <<unplugs, garbles, sessions, hostResets>>
historyVars == <<effects, late>>
sessionVars == <<frameVars, linkTimers, mirrorVars, calls>>
vars == <<hostVars, sessionVars, wireVars, budgetVars, historyVars>>

-----------------------------------------------------------------------------
Garbled == [status |-> "GARBLED", cmd |-> "GARBLED"]

\* Heartbeat ages count heartbeat intervals; three of them trip the poll.
PollAge  == 3
LinkAges == {Never} \cup 0..PollAge
Older(age, e) == IF age = Never THEN Never
                 ELSE IF age + e > PollAge THEN PollAge ELSE age + e

Labels == {"idle", "hello", "beat", "hello_after_beat", "state",
           "hello_after_state", "state_again", "reset", "set_mode", "command"}

NoFrame == [id |-> 0, cmd |-> "NONE", flaw |-> "none", arg |-> NoArg]

\* __init__ of a transport object.
SessionStart ==
  /\ pc' = "idle" /\ inflight' = NoFrame /\ attempt' = 0 /\ nextId' = 1
  /\ uncertain' = FALSE
  /\ handshakeComplete' = FALSE /\ syncRequired' = TRUE
  /\ sentAge' = PollAge /\ okAge' = Never
  /\ expectedMode' = "AUTO" /\ lastDepth' = 0 /\ fault' = "NORMAL"

Init ==
  /\ HostInit /\ mode \in BootModes
  /\ pc = "idle" /\ inflight = NoFrame /\ attempt = 0 /\ nextId = 1
  /\ uncertain = FALSE
  /\ handshakeComplete = FALSE /\ syncRequired = TRUE
  /\ sentAge = PollAge /\ okAge = Never
  /\ expectedMode = "AUTO" /\ lastDepth = 0 /\ fault = "NORMAL"
  /\ calls = <<>>
  /\ toHost = <<>> /\ toClient = <<>> /\ plugged = TRUE
  /\ effects = [c \in 1..MaxCalls |-> 0] /\ late = 0
  /\ unplugs = 0 /\ garbles = 0 /\ sessions = 1 /\ hostResets = 0

-----------------------------------------------------------------------------
\* Mutant: retries that are not counted.
SameAttempt == attempt

\* for attempt in range(max_retries + 1).
RetriesLeft == attempt < MaxRetries
NextAttempt == attempt + 1

\* What goes onto an unplugged cable is lost.
Written(frame) == IF plugged THEN Append(toHost, frame) ELSE toHost

\* _send_frame up to the first readline: a fresh msg_id, one write.
Send(label, cmd, arg) ==
  LET frame == [id |-> nextId, cmd |-> cmd, flaw |-> "none", arg |-> arg]
  IN /\ pc' = label
     /\ inflight' = frame
     /\ attempt' = 0
     /\ nextId' = nextId + 1
     /\ uncertain' = FALSE
     /\ toHost' = Written(frame)

\* _ensure_link_ready after the handshake: heartbeat when it is due, then
\* the state sync when one is pending, then the caller's own frame.
Proceed(call, due, sync) ==
  \/ due /\ Send("beat", "HEARTBEAT", NoArg)
  \/ ~due /\ sync /\ Send("state", "GET_STATE", NoArg)
  \/ ~due /\ ~sync /\ Send("command", call.cmd, call.arg)

SayHello(label) == Send(label, "HELLO", CHOOSE caps \in OfferedSets : TRUE)

ThisCall == calls[Len(calls)]

Finish(result) ==
  /\ pc' = "idle"
  /\ calls' = [calls EXCEPT ![Len(calls)].result = result]
  /\ UNCHANGED <<inflight, attempt, nextId, toHost>>

\* SerialTransportError with a SAFE fault state leaves the call.
RaiseSafe == /\ Finish("raised")
             /\ fault' = "SAFE"
             /\ UNCHANGED uncertain

\* Mutant: the call fails without asking for a resynchronisation.
OutcomeForgotten == uncertain' = TRUE /\ UNCHANGED syncRequired

\* The frame may or may not have taken effect: synchronise before the next.
OutcomeUnknown == uncertain' = TRUE /\ syncRequired' = TRUE

-----------------------------------------------------------------------------
\* The caller enters send or send_command some time after the last call.
Call(cmd, arg) ==
  /\ pc = "idle" /\ Len(calls) < MaxCalls
  /\ LET call == [cmd |-> cmd, arg |-> arg, result |-> "pending"]
     IN /\ calls' = Append(calls, call)
        /\ \E elapsed \in 0..PollAge :
             /\ sentAge' = Older(sentAge, elapsed)
             /\ okAge' = Older(okAge, elapsed)
             /\ IF handshakeComplete THEN Proceed(call, sentAge' >= 1, syncRequired)
                                     ELSE SayHello("hello")
  /\ UNCHANGED <<hostVars, handshakeComplete, syncRequired, mirrorVars,
                 toClient, plugged, budgetVars, historyVars>>

SendSched  == Call("SCHED", Len(calls) + 1)
SendMode   == \E m \in Modes : Call("SET_MODE", m)
SendReset  == Call("RESET_QUEUE", NoArg)

-----------------------------------------------------------------------------
(* Answers.  `answer` is the line readline returned, whoever it was for.   *)
answer == Head(toClient)
isAck  == answer.status = "ACK"

\* Mutant: only an accepted heartbeat counts as an answered one.
OkAgeOnAck(label) == IF label = "beat" /\ isAck THEN 0 ELSE okAge

OkAgeAfter(label) == IF label = "beat" THEN 0 ELSE okAge

\* The part of _send_frame that follows a parsed answer, whatever frame it
\* is taken to answer.
Take(label) ==
  /\ pc = label
  /\ toClient # <<>>
  /\ answer.status \in {"ACK", "NACK"}
  /\ toClient' = Tail(toClient)
  /\ expectedMode' = IF isAck /\ inflight.cmd \in {"SET_MODE", "SCHED"}
                     THEN answer.mode ELSE expectedMode
  /\ lastDepth' = IF ~isAck THEN lastDepth
                  ELSE IF label = "reset" THEN 0 ELSE answer.depth
  /\ okAge' = OkAgeAfter(label)
  /\ UNCHANGED <<hostVars, plugged, budgetVars, historyVars>>

\* _perform_handshake returns: only the call from _ensure_link_ready's first
\* line makes the heartbeat due again, the one after a refused heartbeat has
\* its 0.0 overwritten by `now`.
TakeHello(label, age) ==
  /\ Take(label)
  /\ \/ /\ ~isAck
        /\ RaiseSafe
        /\ UNCHANGED <<handshakeComplete, sentAge, syncRequired>>
     \/ /\ isAck
        /\ handshakeComplete' = TRUE
        /\ syncRequired' = TRUE
        /\ sentAge' = age
        /\ CASE label = "hello"             -> Proceed(ThisCall, TRUE, TRUE)
             [] label = "hello_after_beat"  -> Proceed(ThisCall, FALSE, TRUE)
             [] label = "hello_after_state" -> Send("state_again", "GET_STATE", NoArg)
        /\ UNCHANGED <<calls, fault>>

TakeBeat ==
  /\ Take("beat")
  /\ \/ /\ isAck
        /\ sentAge' = 0
        /\ Proceed(ThisCall, FALSE, syncRequired)
        /\ UNCHANGED <<handshakeComplete, syncRequired>>
     \/ /\ ~isAck
        /\ handshakeComplete' = FALSE
        /\ syncRequired' = TRUE
        /\ SayHello("hello_after_beat")
        /\ UNCHANGED sentAge
  /\ UNCHANGED <<calls, fault>>

\* _sync_state_before_sched: adopt the host's state, or, when its mode is
\* not the expected one, reset a non-empty queue and set the mode.
TakeState(label) ==
  /\ Take(label)
  /\ \/ /\ isAck
        /\ \/ /\ answer.mode = expectedMode
              /\ syncRequired' = FALSE
              /\ Send("command", ThisCall.cmd, ThisCall.arg)
           \/ /\ answer.mode # expectedMode
              /\ IF answer.depth > 0 THEN Send("reset", "RESET_QUEUE", NoArg)
                                     ELSE Send("set_mode", "SET_MODE", expectedMode)
              /\ UNCHANGED syncRequired
        /\ UNCHANGED <<handshakeComplete, calls, fault>>
     \/ /\ ~isAck /\ label = "state"
        /\ handshakeComplete' = FALSE
        /\ SayHello("hello_after_state")
        /\ UNCHANGED <<syncRequired, calls, fault>>
     \/ /\ ~isAck /\ label = "state_again"
        /\ RaiseSafe
        /\ UNCHANGED <<handshakeComplete, syncRequired>>
  /\ UNCHANGED sentAge

TakeReset ==
  /\ Take("reset")
  /\ \/ /\ isAck
        /\ Send("set_mode", "SET_MODE", expectedMode)
        /\ UNCHANGED <<calls, fault>>
     \/ ~isAck /\ RaiseSafe
  /\ UNCHANGED <<handshakeComplete, sentAge, syncRequired>>

TakeSetMode ==
  /\ Take("set_mode")
  /\ \/ /\ isAck
        /\ syncRequired' = FALSE
        /\ Send("command", ThisCall.cmd, ThisCall.arg)
        /\ UNCHANGED <<calls, fault>>
     \/ /\ ~isAck
        /\ RaiseSafe
        /\ UNCHANGED syncRequired
  /\ UNCHANGED <<handshakeComplete, sentAge>>

\* Mutant: what is not recognised is reported as busy.
BenchResultBusy ==
  IF isAck THEN "ACK"
  ELSE IF answer.code = QueueFull THEN "NACK_QUEUE_FULL"
  ELSE "NACK_BUSY"

\* _map_ack_to_bench_state; only send() stores the fault it maps to.
BenchResult ==
  IF isAck THEN "ACK"
  ELSE IF answer.code = QueueFull THEN "NACK_QUEUE_FULL"
  ELSE IF answer.code = Busy THEN "NACK_BUSY"
  ELSE "NACK_SAFE"

TakeCommand ==
  /\ Take("command")
  /\ Finish(BenchResult)
  /\ fault' = IF inflight.cmd # "SCHED" THEN fault
              ELSE IF BenchResult = "NACK_SAFE" THEN "SAFE" ELSE "NORMAL"
  /\ UNCHANGED <<handshakeComplete, sentAge, syncRequired, uncertain>>

\* A line that does not parse: SAFE, the outcome of the frame is unknown.
ParseError ==
  /\ pc # "idle"
  /\ toClient # <<>> /\ answer = Garbled
  /\ toClient' = Tail(toClient)
  /\ Finish("raised")
  /\ fault' = "SAFE" /\ OutcomeUnknown
  /\ UNCHANGED <<hostVars, handshakeComplete, sentAge, okAge, expectedMode,
                 lastDepth, plugged, budgetVars, historyVars>>

\* readline returns nothing: write the same frame again, or give up.
Timeout ==
  /\ pc # "idle" /\ toClient = <<>>
  /\ \/ toHost = <<>> /\ UNCHANGED late
     \/ toHost # <<>> /\ late < MaxLates /\ late' = late + 1
  /\ \/ /\ RetriesLeft
        /\ attempt' = NextAttempt
        /\ toHost' = Written(inflight)
        /\ UNCHANGED <<pc, inflight, nextId, uncertain, calls, fault, syncRequired>>
     \/ /\ ~RetriesLeft
        /\ Finish("raised")
        /\ fault' = "WATCHDOG" /\ OutcomeUnknown
  /\ UNCHANGED <<hostVars, handshakeComplete, sentAge, okAge, expectedMode,
                 lastDepth, toClient, plugged, budgetVars, effects>>

-----------------------------------------------------------------------------
\* The endpoint answers the next frame of its input.
HostStep ==
  /\ toHost # <<>>
  /\ IF Head(toHost) = Garbled THEN HandleMalformed ELSE HandleRequest(Head(toHost))
  /\ toHost' = Tail(toHost)
  /\ toClient' = IF plugged THEN Append(toClient, reply') ELSE toClient
  /\ effects' = [c \in DOMAIN effects |->
                   IF Len(queue') > Len(queue) /\ queue'[Len(queue')] = c
                   THEN effects[c] + 1 ELSE effects[c]]
  /\ UNCHANGED <<sessionVars, plugged, budgetVars, late>>

HostTick == Tick /\ UNCHANGED <<sessionVars, wireVars, budgetVars, historyVars>>

\* The endpoint restarts: nothing of its state survives.
HostReset ==
  /\ hostResets < MaxHostResets
  /\ hostResets' = hostResets + 1
  /\ mode' \in BootModes
  /\ queue' = <<>> /\ schedulerState' = "IDLE"
  /\ linkState' = "DISCONNECTED" /\ synced' = FALSE /\ capabilities' = {}
  /\ heartbeatAge' = Never /\ reply' = NoReply
  /\ recentResults' = <<>> /\ recentIds' = <<>>
  /\ toHost' = <<>>
  /\ UNCHANGED <<busy, sessionVars, toClient, plugged, unplugs, garbles,
                 sessions, historyVars>>

\* The application closes the port between two calls and opens a new
\* transport on it; opening discards what the port has received.
Reopen ==
  /\ pc = "idle" /\ sessions < MaxSessions
  /\ sessions' = sessions + 1
  /\ SessionStart
  /\ toClient' = <<>>
  /\ UNCHANGED <<hostVars, calls, toHost, plugged, unplugs, garbles,
                 hostResets, historyVars>>

Unplug ==
  /\ plugged /\ unplugs < MaxUnplugs
  /\ plugged' = FALSE /\ unplugs' = unplugs + 1
  /\ toHost' \in {toHost, <<>>} /\ toClient' \in {toClient, <<>>}
  /\ UNCHANGED <<hostVars, sessionVars, garbles, sessions, hostResets, historyVars>>

Replug ==
  /\ ~plugged /\ plugged' = TRUE
  /\ UNCHANGED <<hostVars, sessionVars, toHost, toClient, budgetVars, historyVars>>

Garble ==
  /\ garbles < MaxGarbles /\ garbles' = garbles + 1
  /\ \/ /\ toHost # <<>> /\ toHost' = <<Garbled>> \o Tail(toHost)
        /\ UNCHANGED toClient
     \/ /\ toClient # <<>> /\ toClient' = <<Garbled>> \o Tail(toClient)
        /\ UNCHANGED toHost
  /\ UNCHANGED <<hostVars, sessionVars, plugged, unplugs, sessions, hostResets,
                 historyVars>>

-----------------------------------------------------------------------------
Answered ==
  \/ TakeHello("hello", PollAge)
  \/ TakeHello("hello_after_beat", 0)
  \/ TakeHello("hello_after_state", PollAge)
  \/ TakeBeat
  \/ TakeState("state")
  \/ TakeState("state_again")
  \/ TakeReset
  \/ TakeSetMode
  \/ TakeCommand

Wait == Answered \/ ParseError \/ Timeout

Next ==
  \/ SendSched \/ SendMode \/ SendReset
  \/ Answered \/ ParseError \/ Timeout
  \/ HostStep \/ HostTick \/ HostReset
  \/ Reopen \/ Unplug \/ Replug \/ Garble

Spec == Init /\ [][Next]_vars

\* A blocked readline returns, with a line or without; the endpoint reads
\* its input.  Nothing makes the cable, the caller or the clock act.
FairSpec == Spec /\ WF_vars(Wait) /\ WF_vars(HostStep)
-----------------------------------------------------------------------------
\* No retry of a frame whose answer was lost was also hit by noise.
LossOrNoise == unplugs = 0 \/ garbles = 0

\* The values the transport and the wire range over.
LinkTypeOK ==
  /\ pc \in Labels
  /\ attempt \in 0..MaxRetries
  /\ sentAge \in LinkAges /\ okAge \in LinkAges
  /\ expectedMode \in Modes
  /\ lastDepth \in 0..MaxQueueDepth
  /\ fault \in {"NORMAL", "SAFE", "WATCHDOG"}
  /\ \A c \in 1..Len(calls) :
       /\ calls[c].result \in {"pending", "raised", "ACK", "NACK_QUEUE_FULL",
                               "NACK_BUSY", "NACK_SAFE"}
       /\ calls[c].result = "pending" <=> c = Len(calls) /\ pc # "idle"

\* error_model.md:34: retries do not duplicate side effects.  However often a
\* frame is written again, and whatever the cable, the endpoint and the
\* application do meanwhile, the job of one send() enters the queue once.
AtMostOnce == \A c \in 1..MaxCalls : effects[c] <= 1

\* What send() reports is what happened, as long as readline never gives up
\* too early and neither end restarts: ACK means enqueued, a queue-full or
\* busy NACK means not enqueued.  Any other NACK means so unless noise hit a
\* retry: NACK 8 answers the damaged copy of a frame that was executed.
ReportsAreTrue ==
  late = 0 /\ sessions = 1 /\ hostResets = 0 =>
    \A c \in 1..Len(calls) :
      calls[c].cmd = "SCHED" =>
        /\ calls[c].result = "ACK" => effects[c] = 1
        /\ calls[c].result \in {"NACK_QUEUE_FULL", "NACK_BUSY"} => effects[c] = 0
        /\ calls[c].result = "NACK_SAFE" /\ LossOrNoise => effects[c] = 0

\* Between calls, a transport that sees no need to resynchronise mirrors the
\* endpoint: expected mode and last depth are its mode and depth, also
\* after lost answers or damaged frames, and after failed calls.
MirrorAgrees ==
  LossOrNoise /\ late = 0 /\ sessions = 1 /\ hostResets = 0 /\ pc = "idle" /\ ~syncRequired =>
    expectedMode = mode /\ lastDepth = Len(queue)

\* In every well-typed state: a heartbeat is never overdue for the poll in
\* _poll_heartbeat_health when it is not due for _ensure_link_ready.  The
\* poll's own heartbeat, which this module leaves out, is never sent.
PollIsRedundant == LinkTypeOK /\ (okAge # Never => okAge <= sentAge)

\* Every call returns or raises: the retries and the re-handshakes within
\* one call come to an end.
CallReturns == pc # "idle" ~> pc = "idle"
=============================================================================
