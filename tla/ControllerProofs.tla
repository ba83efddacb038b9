--------------------------- MODULE ControllerProofs ---------------------------
(***************************************************************************)
(* Proofs about module BenchController for every size of the four queues,  *)
(* every queue depth and consumption policy, every set of buttons and any  *)
(* number of frames and clicks: the queues keep their bounds, the calls of *)
(* the UI thread nest four deep at most, and the cycle timer is active     *)
(* exactly in a running state.                                             *)
(***************************************************************************)
EXTENDS BenchController, SequenceTheorems, TLAPS

Slots == {"drain", "actions"}
Waits == {"settled", "replay", "live", "home", "recovered"}

\* The five shapes of the UI thread's stack: a slot, a wait in it, and in the
\* wait of the cycle slot once more the action slot with a wait of its own.
StackOK ==
  /\ stack \in Seq([at : Slots \cup Waits, to : States \cup {"none"}, restart : BOOLEAN])
  /\ Len(stack) \in 0..4
  /\ Len(stack) \in {1, 2} => stack[1].at \in Slots
  /\ Len(stack) \in {3, 4} => stack[1].at = "drain" /\ stack[3].at = "actions"
  /\ Len(stack) \in {2, 3, 4} => stack[2].at \in Waits
  /\ Len(stack) = 4 => stack[4].at \in Waits

\* The timer is active exactly in a running state, in every step of a call.
UiOK == /\ ctl \in States /\ timer \in BOOLEAN
        /\ timer <=> ctl \in Running
        /\ StackOK

RuntimeOK == opMode \in Modes /\ fault \in Faults /\ prevTs \in Int

SourceOK == /\ source \in [kind : {"none", "replay", "live"}, next : Int]
            /\ simId \in Int

Transports == [kind : {"mock", "serial", "closed"}, mode : Modes,
               depth : 0..MaxQueueDepth, fault : Faults]

TransportOK == tr \in [1..2 -> Transports] /\ cur \in 1..2

Batches == [id : Int, prev : Int]
Logs    == Modes \cup {"none", "UNKNOWN"}
Events  == {[kind |-> "source_fault"], [kind |-> "replay_complete"]}
             \cup [kind : {"faulted"}, fault : Faults]
             \cup [kind : {"cycle_complete"}, id : Int, log : Logs]

FrameOK == /\ acquireQ \in 0..RequestQueueSize
           /\ \/ frameWorker \in [at : {"idle", "asked", "reading"}]
              \/ frameWorker \in [at : {"detecting"}, id : Int]

WorkOK == workQ \in Seq(Batches) /\ Len(workQ) <= WorkQueueSize

TxOK == \/ txWorker \in [at : {"idle", "dead"}]
        \/ txWorker \in [at : {"took"}, batch : Batches]
        \/ txWorker \in [at : {"done"}, id : Int, log : Logs]

EventsOK == uiQ \in Seq(Events) /\ Len(uiQ) <= UiQueueSize

ActionsOK == actionQ \in Seq(Buttons) /\ Len(actionQ) <= ActionQueueSize

\* The inductive invariant.
BenchInv == /\ UiOK /\ RuntimeOK /\ SourceOK /\ TransportOK
            /\ FrameOK /\ WorkOK /\ TxOK /\ EventsOK /\ ActionsOK

-----------------------------------------------------------------------------
(* A part of the invariant outlives every step that leaves its variables.  *)

LEMMA UiStable == UiOK /\ UNCHANGED uiVars => UiOK'
BY DEF UiOK, StackOK, uiVars

LEMMA RuntimeStable == RuntimeOK /\ UNCHANGED runtimeVars => RuntimeOK'
BY DEF RuntimeOK, runtimeVars

LEMMA SourceStable == SourceOK /\ UNCHANGED <<source, simId>> => SourceOK'
BY DEF SourceOK

LEMMA TransportStable == TransportOK /\ UNCHANGED trVars => TransportOK'
BY DEF TransportOK, trVars

LEMMA FrameStable == FrameOK /\ UNCHANGED frameVars => FrameOK'
BY DEF FrameOK, frameVars

LEMMA WorkStable == WorkOK /\ UNCHANGED workQ => WorkOK'
BY DEF WorkOK

LEMMA TxStable == TxOK /\ UNCHANGED txWorker => TxOK'
BY DEF TxOK

LEMMA EventsStable == EventsOK /\ UNCHANGED uiQ => EventsOK'
BY DEF EventsOK

LEMMA ActionsStable == ActionsOK /\ UNCHANGED actionQ => ActionsOK'
BY DEF ActionsOK

-----------------------------------------------------------------------------
(* The bounded queues.                                                     *)

\* A put into a queue that drops its oldest item keeps the bound.
LEMMA PutOldestFacts ==
  ASSUME NEW S, NEW q \in Seq(S), NEW item \in S, NEW size \in Nat \ {0}, Len(q) <= size
  PROVE  /\ PutDropOldest(q, item, size) \in Seq(S)
         /\ Len(PutDropOldest(q, item, size)) <= size
<1>1. CASE Len(q) = size
  <2>1. Tail(q) \in Seq(S) /\ Len(Tail(q)) = size - 1
    BY <1>1
  <2> QED BY <1>1, <2>1 DEF PutDropOldest
<1>2. CASE Len(q) # size
  BY <1>2 DEF PutDropOldest
<1> QED BY <1>1, <1>2

\* So does one into a queue that drops the new item.
LEMMA PutNewestFacts ==
  ASSUME NEW S, NEW q \in Seq(S), NEW item \in S, NEW size \in Nat, Len(q) <= size
  PROVE  /\ PutDropNewest(q, item, size) \in Seq(S)
         /\ Len(PutDropNewest(q, item, size)) <= size
BY DEF PutDropNewest

\* Taking the head leaves a shorter queue of the same items.
LEMMA TakeFacts ==
  ASSUME NEW S, NEW q \in Seq(S), q # <<>>
  PROVE  q[1] \in S /\ Head(q) = q[1] /\ Tail(q) \in Seq(S) /\ Len(Tail(q)) = Len(q) - 1
OBVIOUS

\* Posting an event keeps the queue of events.
LEMMA PostStep ==
  ASSUME EventsOK, NEW event \in Events, Post(event)
  PROVE  EventsOK'
BY PutOldestFacts, BenchAssumption DEF EventsOK, Post

-----------------------------------------------------------------------------
(* The UI thread.                                                          *)

\* A wait is pushed on a slot and on nothing else.
LEMMA EnterStep ==
  ASSUME UiOK, NEW target \in States, NEW label \in Waits,
         In("drain") \/ In("actions"), Enter(target, label)
  PROVE  UiOK'
<1> DEFINE F == [at : Slots \cup Waits, to : States \cup {"none"}, restart : BOOLEAN]
           f == [at |-> label, to |-> target, restart |-> timer]
<1>1. /\ stack \in Seq(F) /\ Len(stack) \in 1..4
      /\ stack[Len(stack)].at \in Slots
  BY DEF UiOK, StackOK, In, Top, Slots
<1>2. f \in F
  BY DEF UiOK
<1>3. stack' = Append(stack, f)
  BY DEF Enter
<1>4. f.at = label
  OBVIOUS
<1> HIDE DEF f, F
<1>5. /\ stack' \in Seq(F) /\ Len(stack') = Len(stack) + 1
      /\ \A i \in 1..Len(stack) : stack'[i] = stack[i]
      /\ stack'[Len(stack) + 1] = f
  BY <1>1, <1>2, <1>3
<1>6. Len(stack) \in {1, 3}
  BY <1>1 DEF UiOK, StackOK, Slots, Waits
<1>7. StackOK'
  <2>1. CASE Len(stack) = 1
    BY <1>1, <1>4, <1>5, <2>1 DEF StackOK, F
  <2>2. CASE Len(stack) = 3
    <3>1. stack[1].at = "drain" /\ stack[3].at = "actions" /\ stack[2].at \in Waits
      BY <2>2 DEF UiOK, StackOK
    <3> QED BY <1>4, <1>5, <2>2, <3>1 DEF StackOK, F
  <2> QED BY <1>6, <2>1, <2>2
<1>8. ctl' = target /\ timer' = (target \in Running)
  BY DEF Enter
<1>9. timer' \in BOOLEAN /\ (timer' <=> ctl' \in Running) /\ ctl' \in States
  <2>1. ctl' \in States
    BY <1>8
  <2>2. (target \in Running) \in BOOLEAN
    OBVIOUS
  <2>3. timer' \in BOOLEAN
    BY <1>8, <2>2, Zenon
  <2>4. timer' <=> ctl' \in Running
    BY <1>8, Zenon
  <2> QED BY <2>1, <2>3, <2>4
<1> QED BY <1>7, <1>9 DEF UiOK

LEMMA EnterIfAllowedStep ==
  ASSUME UiOK, NEW target \in States, NEW label \in Waits,
         In("drain") \/ In("actions"), EnterIfAllowed(target, label)
  PROVE  UiOK'
BY EnterStep, UiStable DEF EnterIfAllowed

\* A prefix of a sequence.
LEMMA PrefixFacts ==
  ASSUME NEW S, NEW s \in Seq(S), NEW n \in 0..Len(s)
  PROVE  /\ SubSeq(s, 1, n) \in Seq(S)
         /\ Len(SubSeq(s, 1, n)) = n
         /\ \A i \in 1..n : SubSeq(s, 1, n)[i] = s[i]
OBVIOUS

\* Whatever ends, a slot or a wait, leaves a stack of one of the shapes.
LEMMA PopStack ==
  ASSUME StackOK, stack # <<>>, stack' = Rest
  PROVE  StackOK'
<1> DEFINE F == [at : Slots \cup Waits, to : States \cup {"none"}, restart : BOOLEAN]
<1>1. stack \in Seq(F) /\ Len(stack) \in 1..4
  BY DEF StackOK
<1>2. stack' = SubSeq(stack, 1, Len(stack) - 1)
  BY DEF Rest
<1> HIDE DEF F
<1>3. /\ stack' \in Seq(F) /\ Len(stack') = Len(stack) - 1
      /\ \A i \in 1..(Len(stack) - 1) : stack'[i] = stack[i]
  <2>1. Len(stack) - 1 \in 0..Len(stack)
    BY <1>1
  <2> QED BY <1>1, <1>2, <2>1, PrefixFacts
<1>4. stack' \in Seq([at : Slots \cup Waits, to : States \cup {"none"}, restart : BOOLEAN])
  BY <1>3 DEF F
<1>5. /\ Len(stack') \in {1, 2} => stack'[1].at \in Slots
      /\ Len(stack') = 3 => stack'[1].at = "drain" /\ stack'[3].at = "actions"
      /\ Len(stack') \in {2, 3} => stack'[2].at \in Waits
  <2>1. /\ Len(stack) \in {1, 2} => stack[1].at \in Slots
        /\ Len(stack) \in {3, 4} => stack[1].at = "drain" /\ stack[3].at = "actions"
        /\ Len(stack) \in {2, 3, 4} => stack[2].at \in Waits
    BY DEF StackOK
  <2>2. "drain" \in Slots
    BY DEF Slots
  <2>3. CASE Len(stack) = 2
    <3>1. Len(stack') = 1 /\ stack'[1] = stack[1]
      BY <1>3, <2>3
    <3> QED BY <2>1, <2>3, <3>1
  <2>4. CASE Len(stack) = 3
    <3>1. Len(stack') = 2 /\ stack'[1] = stack[1] /\ stack'[2] = stack[2]
      BY <1>3, <2>4
    <3> QED BY <2>1, <2>2, <2>4, <3>1
  <2>5. CASE Len(stack) = 4
    <3>1. /\ Len(stack') = 3 /\ stack'[1] = stack[1] /\ stack'[2] = stack[2]
          /\ stack'[3] = stack[3]
      BY <1>3, <2>5
    <3> QED BY <2>1, <2>5, <3>1
  <2>6. CASE Len(stack) = 1
    <3>1. Len(stack') = 0
      BY <1>3, <2>6
    <3> QED BY <3>1
  <2>7. Len(stack) \in {1, 2, 3, 4}
    BY <1>1
  <2> QED BY <2>3, <2>4, <2>5, <2>6, <2>7
<1>6. Len(stack') \in 0..3
  BY <1>1, <1>3
<1> QED BY <1>4, <1>5, <1>6 DEF StackOK

\* The exception of RESET_QUEUE ends the wait and the slot below it.
LEMMA PopTwo ==
  ASSUME StackOK, stack # <<>>, Top.at \in Waits, stack' = SubSeq(stack, 1, Len(stack) - 2)
  PROVE  StackOK'
<1> DEFINE F == [at : Slots \cup Waits, to : States \cup {"none"}, restart : BOOLEAN]
<1>1. stack \in Seq(F) /\ Len(stack) \in {2, 4}
  BY DEF StackOK, Top, Slots, Waits
<1> HIDE DEF F
<1>2. CASE Len(stack) = 2
  <2>1. stack' = SubSeq(stack, 1, 0) /\ 0 \in 0..Len(stack)
    BY <1>2
  <2>2. stack' \in Seq(F) /\ Len(stack') = 0
    <3>1. \A s \in Seq(F) : SubSeq(s, 1, 0) = <<>>
      OBVIOUS
    <3>2. stack' = <<>>
      BY <1>1, <2>1, <3>1
    <3>3. <<>> \in Seq(F) /\ Len(<<>>) = 0
      OBVIOUS
    <3> QED BY <3>2, <3>3, Zenon
  <2> QED BY <2>2 DEF StackOK, F
<1>3. CASE Len(stack) = 4
  <2>1. Len(stack) - 2 \in 0..Len(stack) /\ Len(stack) - 2 = 2
    BY <1>3
  <2>2. /\ stack' \in Seq(F) /\ Len(stack') = Len(stack) - 2
        /\ \A i \in 1..(Len(stack) - 2) : stack'[i] = stack[i]
    BY <1>1, <2>1, PrefixFacts
  <2>3. Len(stack') = 2
    BY <2>1, <2>2, Zenon
  <2>4. stack'[1] = stack[1] /\ stack'[2] = stack[2]
    BY <1>3, <2>2
  <2>5. stack[1].at \in Slots /\ stack[2].at \in Waits
    BY <1>3 DEF StackOK, Slots
  <2>6. /\ Len(stack') \in 0..4 /\ Len(stack') \notin {3, 4} /\ Len(stack') # 4
    <3>1. 2 \in 0..4 /\ 2 \notin {3, 4} /\ 2 # 4
      OBVIOUS
    <3> QED BY <2>3, <3>1, Zenon
  <2>7. stack' \in Seq(F)
    BY <2>2
  <2>8. stack'[1].at \in Slots /\ stack'[2].at \in Waits
    BY <2>4, <2>5
  <2> QED BY <2>6, <2>7, <2>8 DEF StackOK, F, Slots, Waits
<1> QED BY <1>1, <1>2, <1>3

\* A timer that was running before the wait is restarted in a running state
\* only, where the entry has started it anyway.
LEMMA RestartIsHarmless ==
  ASSUME UiOK, timer' = (timer \/ (Top.restart /\ ctl \in Running)), UNCHANGED ctl, StackOK'
  PROVE  UiOK'
BY DEF UiOK

LEMMA ReturnStep ==
  ASSUME UiOK, stack # <<>>, Return
  PROVE  UiOK'
BY PopStack, RestartIsHarmless DEF Return, UiOK

LEMMA AbortStep ==
  ASSUME UiOK, stack # <<>>, stack' = Rest, UNCHANGED <<ctl, timer>>
  PROVE  UiOK'
BY PopStack DEF UiOK

\* A slot starts on the empty stack, the action slot also on the wait of the
\* cycle slot: a second one finds itself on the stack.
LEMMA StartSlotStep ==
  ASSUME UiOK, UNCHANGED <<ctl, timer>>, NEW label \in Slots, stack' = Append(stack, Frame(label)),
         \/ stack = <<>>
         \/ Waiting /\ label = "actions" /\ \A i \in 1..Len(stack) : stack[i].at # "actions"
  PROVE  UiOK'
<1> DEFINE F == [at : Slots \cup Waits, to : States \cup {"none"}, restart : BOOLEAN]
           f == Frame(label)
<1>1. stack \in Seq(F) /\ Len(stack) \in 0..4
  BY DEF UiOK, StackOK
<1>2. f \in F /\ f.at = label
  BY DEF Frame
<1>3. /\ Len(stack) \in {0, 2}
      /\ Len(stack) = 2 => label = "actions" /\ stack[1].at = "drain" /\ stack[2].at \in Waits
  <2>1. CASE stack = <<>>
    BY <2>1
  <2>2. CASE stack # <<>>
    <3>1. /\ stack[Len(stack)].at \notin Slots /\ label = "actions"
          /\ \A i \in 1..Len(stack) : stack[i].at # "actions"
      BY <2>2 DEF Waiting, Top, Slots
    <3>2. Len(stack) \in 1..4
      BY <1>1, <2>2
    <3>3. Len(stack) \notin {3, 4}
      BY <1>1, <3>1 DEF UiOK, StackOK
    <3>4. Len(stack) = 2
      BY <3>1, <3>2, <3>3 DEF UiOK, StackOK
    <3>5. 1 \in 1..Len(stack)
      BY <3>4
    <3> QED BY <3>1, <3>4, <3>5 DEF UiOK, StackOK, Slots
  <2> QED BY <2>1, <2>2
<1> HIDE DEF F, f
<1>4. /\ stack' \in Seq(F) /\ Len(stack') = Len(stack) + 1
      /\ \A i \in 1..Len(stack) : stack'[i] = stack[i]
      /\ stack'[Len(stack) + 1] = f
  BY <1>1, <1>2 DEF f
<1>5. StackOK'
  <2>1. CASE Len(stack) = 0
    BY <1>2, <1>4, <2>1 DEF StackOK, F
  <2>2. CASE Len(stack) = 2
    BY <1>2, <1>3, <1>4, <2>2 DEF StackOK, F
  <2> QED BY <1>3, <2>1, <2>2
<1> QED BY <1>5 DEF UiOK

-----------------------------------------------------------------------------
(* The transports.                                                         *)

Results  == {"ack", "nack", "raise"}
SendLogs == Modes \cup {"UNKNOWN", "raise", "dead"}

LEMMA NewTransportType ==
  ASSUME NEW kind \in {"mock", "serial"}
  PROVE  NewTransport(kind) \in Transports
BY BenchAssumption DEF NewTransport, Transports, Modes, Faults

LEMMA SerialType ==
  ASSUME NEW t \in Transports, NEW o \in SerialAnswers(t)
  PROVE  o.t \in Transports /\ o.res \in Results
BY DEF SerialAnswers, Transports, Results, Faults

LEMMA EditedTransport ==
  ASSUME NEW t \in Transports, NEW m \in Modes, NEW d \in 0..MaxQueueDepth, NEW f \in Faults
  PROVE  /\ [t EXCEPT !.mode = m, !.depth = d, !.fault = f] \in Transports
         /\ [t EXCEPT !.depth = d, !.fault = f] \in Transports
BY DEF Transports

\* Whatever a transport answers to SET_MODE, it stays a transport.
LEMMA SetModeType ==
  ASSUME NEW t \in Transports, NEW m \in Modes, NEW o \in SetModeAnswers(t, m)
  PROVE  o.t \in Transports /\ o.res \in Results
<1>1. t.kind \in {"mock", "serial", "closed"}
  BY DEF Transports
<1>2. CASE t.kind = "serial"
  <2>1. SetModeAnswers(t, m) = SerialAnswers(t)
    BY <1>2 DEF SetModeAnswers
  <2> QED BY <2>1, SerialType
<1>3. CASE t.kind = "closed"
  <2>1. SetModeAnswers(t, m) = {[res |-> "raise", t |-> t]}
    BY <1>3 DEF SetModeAnswers
  <2> QED BY <2>1 DEF Results
<1>4. CASE t.kind = "mock" /\ t.mode = "SAFE" /\ m = "AUTO"
  <2>1. SetModeAnswers(t, m) = {[res |-> "nack", t |-> [t EXCEPT !.fault = "NORMAL"]]}
    BY <1>4 DEF SetModeAnswers
  <2> QED BY <2>1 DEF Results, Transports, Faults
<1>5. CASE t.kind = "mock" /\ ~(t.mode = "SAFE" /\ m = "AUTO")
  <2> DEFINE u == [t EXCEPT !.mode = m, !.depth = IF m = t.mode THEN @ ELSE 0,
                            !.fault = IF m = "SAFE" THEN "SAFE" ELSE "NORMAL"]
  <2>1. SetModeAnswers(t, m) = {[res |-> "ack", t |-> u]}
    BY <1>5 DEF SetModeAnswers
  <2>2. (IF m = t.mode THEN t.depth ELSE 0) \in 0..MaxQueueDepth
    BY BenchAssumption DEF Transports
  <2>3. (IF m = "SAFE" THEN "SAFE" ELSE "NORMAL") \in Faults
    BY DEF Faults
  <2>4. u \in Transports
    BY <2>2, <2>3, EditedTransport
  <2> HIDE DEF u
  <2> QED BY <2>1, <2>4 DEF Results
<1> QED BY <1>1, <1>2, <1>3, <1>4, <1>5

\* And to RESET_QUEUE.
LEMMA ResetQueueType ==
  ASSUME NEW t \in Transports, NEW o \in ResetQueueAnswers(t)
  PROVE  o.t \in Transports /\ o.res \in Results
<1>1. t.kind \in {"mock", "serial", "closed"}
  BY DEF Transports
<1>2. CASE t.kind = "serial"
  <2>1. ResetQueueAnswers(t) = SerialAnswers(t)
    BY <1>2 DEF ResetQueueAnswers
  <2> QED BY <2>1, SerialType
<1>3. CASE t.kind = "closed"
  <2>1. ResetQueueAnswers(t) = {[res |-> "raise", t |-> t]}
    BY <1>3 DEF ResetQueueAnswers
  <2> QED BY <2>1 DEF Results
<1>4. CASE t.kind = "mock"
  <2> DEFINE u == [t EXCEPT !.depth = 0, !.fault = IF t.mode = "SAFE" THEN "SAFE" ELSE "NORMAL"]
  <2>1. ResetQueueAnswers(t) = {[res |-> "ack", t |-> u]}
    BY <1>4 DEF ResetQueueAnswers
  <2>2. 0 \in 0..MaxQueueDepth
    BY BenchAssumption
  <2>3. (IF t.mode = "SAFE" THEN "SAFE" ELSE "NORMAL") \in Faults
    BY DEF Faults
  <2>4. u \in Transports
    BY <2>2, <2>3, EditedTransport DEF Transports
  <2> HIDE DEF u
  <2> QED BY <2>1, <2>4 DEF Results
<1> QED BY <1>1, <1>2, <1>3, <1>4

\* A send fills the queue up to its depth and no further.
LEMMA SendType ==
  ASSUME NEW t \in Transports, NEW o \in SendAnswers(t)
  PROVE  o.t \in Transports /\ o.log \in SendLogs
<1>1. /\ t.kind \in {"mock", "serial", "closed"} /\ t.mode \in Modes
      /\ t.depth \in 0..MaxQueueDepth /\ MaxQueueDepth \in Nat
  BY BenchAssumption DEF Transports
<1>2. CASE t.kind = "mock" /\ t.fault = "SAFE"
  <2>1. SendAnswers(t) = {[log |-> "AUTO", t |-> t]}
    BY <1>2 DEF SendAnswers
  <2> QED BY <2>1 DEF SendLogs, Modes
<1>3. CASE t.kind = "mock" /\ t.fault # "SAFE" /\ t.depth = MaxQueueDepth
  <2>1. SendAnswers(t) = {[log |-> "AUTO", t |-> [t EXCEPT !.fault = "NORMAL"]]}
    BY <1>1, <1>3 DEF SendAnswers
  <2> QED BY <2>1 DEF SendLogs, Modes, Transports, Faults
<1>4. CASE t.kind = "mock" /\ t.fault # "SAFE" /\ t.depth < MaxQueueDepth
  <2> DEFINE u == [t EXCEPT !.depth = @ + 1, !.fault = IF t.mode = "SAFE" THEN "SAFE" ELSE "NORMAL"]
  <2>1. SendAnswers(t) = {[log |-> t.mode, t |-> u]}
    BY <1>1, <1>4 DEF SendAnswers
  <2>2. t.depth + 1 \in 0..MaxQueueDepth
    BY <1>1, <1>4
  <2>3. u \in Transports
    BY <2>2 DEF Transports, Faults
  <2> HIDE DEF u
  <2> QED BY <1>1, <2>1, <2>3 DEF SendLogs
<1>5. CASE t.kind = "serial"
  <2>1. \/ \E m \in Modes : o = [log |-> m, t |-> [t EXCEPT !.fault = "NORMAL"]]
        \/ \E f \in {"NORMAL", "SAFE"} : o = [log |-> "UNKNOWN", t |-> [t EXCEPT !.fault = f]]
        \/ \E f \in {"SAFE", "WATCHDOG"} : o = [log |-> "raise", t |-> [t EXCEPT !.fault = f]]
    BY <1>5 DEF SendAnswers
  <2>2. \A f \in Faults : [t EXCEPT !.fault = f] \in Transports
    BY DEF Transports
  <2> QED BY <2>1, <2>2 DEF SendLogs, Faults
<1>6. CASE t.kind = "closed"
  <2>1. SendAnswers(t) = {[log |-> "dead", t |-> t]}
    BY <1>6 DEF SendAnswers
  <2> QED BY <2>1 DEF SendLogs
<1> QED BY <1>1, <1>2, <1>3, <1>4, <1>5, <1>6

\* The worker's step takes jobs out of the queue of a mock.
LEMMA StepQueueType ==
  ASSUME NEW t \in Transports, NEW u \in StepQueue(t)
  PROVE  u \in Transports
<1>1. t.depth \in 0..MaxQueueDepth /\ MaxQueueDepth \in Nat
  BY BenchAssumption DEF Transports
<1>2. \A d \in 0..MaxQueueDepth : [t EXCEPT !.depth = d] \in Transports
  BY DEF Transports
<1>3. 0 \in 0..MaxQueueDepth /\ (IF t.depth = 0 THEN 0 ELSE t.depth - 1) \in 0..MaxQueueDepth
  BY <1>1
<1>4. \/ u = t \/ u = [t EXCEPT !.depth = 0]
      \/ u = [t EXCEPT !.depth = IF t.depth = 0 THEN 0 ELSE t.depth - 1]
  BY BenchAssumption DEF StepQueue
<1> QED BY <1>2, <1>3, <1>4

\* One of the two transports is replaced by what it is after a call.
LEMMA TransportStep ==
  ASSUME TransportOK, NEW i \in 1..2, NEW t \in Transports,
         tr' = [tr EXCEPT ![i] = t], cur' \in 1..2
  PROVE  TransportOK'
BY DEF TransportOK

LEMMA TransportFacts ==
  ASSUME TransportOK
  PROVE  tr[1] \in Transports /\ tr[cur] \in Transports /\ cur \in 1..2 /\ 1 \in 1..2
BY DEF TransportOK

-----------------------------------------------------------------------------
(* One lemma per action: it preserves the invariant.                       *)

USE DEF uiVars, runtimeVars, sourceVars, kindVars, trVars, frameVars, workerVars, clickVars

\* What a step of the UI thread leaves to the workers, and the other way round.
LEMMA WorkersStable ==
  FrameOK /\ WorkOK /\ TxOK /\ EventsOK /\ UNCHANGED <<frameVars, workQ, txWorker, uiQ>>
    => FrameOK' /\ WorkOK' /\ TxOK' /\ EventsOK'
BY FrameStable, WorkStable, TxStable, EventsStable

LEMMA DrainFacts ==
  ASSUME EventsOK, NEW kind, NextEvent(kind)
  PROVE  /\ uiQ[1] \in Events /\ uiQ[1].kind = kind
         /\ EventsOK'
         /\ In("drain")
<1>1. uiQ # <<>> /\ uiQ \in Seq(Events) /\ Len(uiQ) <= UiQueueSize /\ uiQ' = Tail(uiQ)
  BY DEF NextEvent, EventsOK
<1>2. uiQ[1] \in Events /\ Tail(uiQ) \in Seq(Events) /\ Len(Tail(uiQ)) = Len(uiQ) - 1
  BY <1>1, TakeFacts
<1>3. Len(uiQ') <= UiQueueSize
  BY <1>1, <1>2, BenchAssumption
<1> QED BY <1>1, <1>2, <1>3 DEF NextEvent, EventsOK

LEMMA EventFacts ==
  ASSUME NEW e \in Events
  PROVE  /\ e.kind = "faulted" => e.fault \in Faults
         /\ e.kind = "cycle_complete" => e.id \in Int /\ e.log \in Logs
BY DEF Events

LEMMA CycleTickStep == BenchInv /\ CycleTick => BenchInv'
<1> SUFFICES ASSUME BenchInv, CycleTick PROVE BenchInv'
  OBVIOUS
<1>1. UiOK'
  <2>1. stack = <<>> /\ stack' = Append(stack, Frame("drain")) /\ UNCHANGED <<ctl, timer>>
    BY DEF CycleTick
  <2> QED BY <2>1, StartSlotStep DEF BenchInv, Slots
<1>2. FrameOK'
  BY BenchAssumption DEF BenchInv, CycleTick, FrameOK
<1> QED BY <1>1, <1>2, RuntimeStable, SourceStable, TransportStable, WorkStable, TxStable,
           EventsStable, ActionsStable DEF BenchInv, CycleTick

LEMMA EndTickStep == BenchInv /\ EndTick => BenchInv'
<1> SUFFICES ASSUME BenchInv, EndTick PROVE BenchInv'
  OBVIOUS
<1>1. UiOK'
  BY AbortStep DEF BenchInv, EndTick, In
<1> QED BY <1>1, RuntimeStable, SourceStable, TransportStable, WorkersStable, ActionsStable
        DEF BenchInv, EndTick

LEMMA DrainSourceFaultStep == BenchInv /\ DrainSourceFault => BenchInv'
<1> SUFFICES ASSUME BenchInv, DrainSourceFault PROVE BenchInv'
  OBVIOUS
<1>1. EventsOK' /\ In("drain")
  BY DrainFacts DEF BenchInv, DrainSourceFault
<1>2. UiOK'
  BY <1>1, EnterIfAllowedStep DEF BenchInv, DrainSourceFault, States, Waits
<1>3. RuntimeOK' /\ SourceOK'
  BY DEF BenchInv, DrainSourceFault, RuntimeOK, SourceOK, NoSource, Faults
<1> QED BY <1>1, <1>2, <1>3, TransportStable, FrameStable, WorkStable, TxStable, ActionsStable
        DEF BenchInv, DrainSourceFault

LEMMA DrainReplayCompleteStep == BenchInv /\ DrainReplayComplete => BenchInv'
<1> SUFFICES ASSUME BenchInv, DrainReplayComplete PROVE BenchInv'
  OBVIOUS
<1>1. EventsOK' /\ In("drain")
  BY DrainFacts DEF BenchInv, DrainReplayComplete
<1>2. UiOK'
  BY <1>1, EnterIfAllowedStep DEF BenchInv, DrainReplayComplete, States, Waits
<1>3. SourceOK'
  BY DEF BenchInv, DrainReplayComplete, SourceOK, NoSource
<1> QED BY <1>1, <1>2, <1>3, RuntimeStable, TransportStable, FrameStable, WorkStable, TxStable,
           ActionsStable DEF BenchInv, DrainReplayComplete

LEMMA DrainFaultedStep == BenchInv /\ DrainFaulted => BenchInv'
<1> SUFFICES ASSUME BenchInv, DrainFaulted PROVE BenchInv'
  OBVIOUS
<1>1. EventsOK' /\ In("drain") /\ uiQ[1] \in Events /\ uiQ[1].kind = "faulted"
  BY DrainFacts DEF BenchInv, DrainFaulted
<1>2. UiOK'
  BY <1>1, EnterIfAllowedStep DEF BenchInv, DrainFaulted, States, Waits
<1>3. RuntimeOK'
  BY <1>1, EventFacts DEF BenchInv, DrainFaulted, RuntimeOK
<1> QED BY <1>1, <1>2, <1>3, SourceStable, TransportStable, FrameStable, WorkStable, TxStable,
           ActionsStable DEF BenchInv, DrainFaulted

\* The SAFE command of a cycle and of the entry of SAFE.
LEMMA CommandSafeStep ==
  ASSUME UiOK, RuntimeOK, TransportOK, NEW log, In("drain"), CommandSafe(log), cur' = cur
  PROVE  UiOK' /\ opMode' \in Modes /\ TransportOK'
<1>1. tr[cur] \in Transports /\ cur \in 1..2 /\ "SAFE" \in Modes
  BY TransportFacts DEF Modes
<1>2. ModeAfter(log) \in Modes
  BY DEF ModeAfter, RuntimeOK
<1>3. PICK first \in SetModeAnswers(tr[cur], "SAFE") :
        IF first.res = "raise"
          THEN /\ tr' = [tr EXCEPT ![cur] = first.t]
               /\ opMode' = ModeAfter(log)
               /\ stack' = Rest
               /\ UNCHANGED <<ctl, timer>>
          ELSE /\ EnterIfAllowed("SAFE", "settled")
               /\ \E second \in IF first.res = "ack" \/ ctl' = ctl THEN {first}
                                ELSE SetModeAnswers(first.t, "SAFE") :
                    /\ tr' = [tr EXCEPT ![cur] = second.t]
                    /\ opMode' = IF second.res = "ack" THEN "SAFE" ELSE ModeAfter(log)
  BY DEF CommandSafe
<1>4. first.t \in Transports
  BY <1>1, SetModeType
<1>5. CASE first.res = "raise"
  <2>1. UiOK'
    BY <1>3, <1>5, AbortStep DEF In
  <2>2. TransportOK'
    BY <1>1, <1>3, <1>4, <1>5, TransportStep
  <2> QED BY <1>2, <1>3, <1>5, <2>1, <2>2
<1>6. CASE first.res # "raise"
  <2>1. UiOK'
    BY <1>3, <1>6, EnterIfAllowedStep DEF States, Waits
  <2>2. PICK second \in IF first.res = "ack" \/ ctl' = ctl THEN {first}
                        ELSE SetModeAnswers(first.t, "SAFE") :
          /\ tr' = [tr EXCEPT ![cur] = second.t]
          /\ opMode' = IF second.res = "ack" THEN "SAFE" ELSE ModeAfter(log)
    BY <1>3, <1>6
  <2>3. second.t \in Transports
    <3>1. second = first \/ second \in SetModeAnswers(first.t, "SAFE")
      BY <2>2
    <3> QED BY <1>1, <1>4, <3>1, SetModeType
  <2>4. TransportOK'
    BY <1>1, <2>2, <2>3, TransportStep
  <2> QED BY <1>1, <1>2, <2>1, <2>2, <2>4
<1> QED BY <1>5, <1>6

LEMMA DrainCycleCompleteStep == BenchInv /\ DrainCycleComplete => BenchInv'
<1> SUFFICES ASSUME BenchInv, DrainCycleComplete PROVE BenchInv'
  OBVIOUS
<1>1. EventsOK' /\ In("drain") /\ uiQ[1] \in Events /\ uiQ[1].kind = "cycle_complete"
  BY DrainFacts DEF BenchInv, DrainCycleComplete
<1>2. prevTs' \in Int
  BY <1>1, EventFacts DEF BenchInv, RuntimeOK, DrainCycleComplete
<1>3. fault' \in Faults
  <2>1. tr[cur].fault \in Faults
    BY TransportFacts DEF BenchInv, Transports
  <2> QED BY <2>1 DEF DrainCycleComplete
<1>4. ModeAfter(uiQ[1].log) \in Modes
  BY DEF BenchInv, RuntimeOK, ModeAfter
<1>5. UiOK' /\ opMode' \in Modes /\ TransportOK'
  <2>1. CASE fault' = "NORMAL" /\ opMode' = ModeAfter(uiQ[1].log) /\ UNCHANGED <<uiVars, tr>>
    <3>1. UNCHANGED trVars
      BY <2>1 DEF DrainCycleComplete
    <3> QED BY <1>4, <2>1, <3>1, UiStable, TransportStable DEF BenchInv
  <2>2. CASE fault' = "SAFE" /\ CommandSafe(uiQ[1].log)
    <3>1. cur' = cur
      BY DEF DrainCycleComplete
    <3> QED BY <1>1, <2>2, <3>1, CommandSafeStep DEF BenchInv
  <2>3. CASE /\ fault' = "WATCHDOG" /\ opMode' = ModeAfter(uiQ[1].log)
             /\ EnterIfAllowed("FAULTED", "settled") /\ UNCHANGED tr
    <3>1. UNCHANGED trVars
      BY <2>3 DEF DrainCycleComplete
    <3>2. UiOK'
      BY <1>1, <2>3, EnterIfAllowedStep DEF BenchInv, States, Waits
    <3> QED BY <1>4, <2>3, <3>1, <3>2, TransportStable DEF BenchInv
  <2> QED BY <2>1, <2>2, <2>3 DEF DrainCycleComplete
<1>6. RuntimeOK'
  BY <1>2, <1>3, <1>5 DEF RuntimeOK
<1> QED BY <1>1, <1>5, <1>6, SourceStable, FrameStable, WorkStable, TxStable, ActionsStable
        DEF BenchInv, DrainCycleComplete

LEMMA SettledStep == BenchInv /\ Settled => BenchInv'
<1> SUFFICES ASSUME BenchInv, Settled PROVE BenchInv'
  OBVIOUS
<1>1. UiOK'
  BY ReturnStep DEF BenchInv, Settled, In
<1> QED BY <1>1, RuntimeStable, SourceStable, TransportStable, WorkersStable, ActionsStable
        DEF BenchInv, Settled

-----------------------------------------------------------------------------
(* The two workers.                                                        *)

LEMMA TakeRequestStep == BenchInv /\ TakeRequest => BenchInv'
<1> SUFFICES ASSUME BenchInv, TakeRequest PROVE BenchInv'
  OBVIOUS
<1>1. FrameOK'
  BY BenchAssumption DEF BenchInv, TakeRequest, FrameOK
<1> QED BY <1>1, UiStable, RuntimeStable, SourceStable, TransportStable, WorkStable, TxStable,
           EventsStable, ActionsStable DEF BenchInv, TakeRequest

\* What the worker reports about its source or its frame.
LEMMA ReportFacts ==
  /\ [kind |-> "replay_complete"] \in Events
  /\ [kind |-> "source_fault"] \in Events
  /\ \A f \in Faults : [kind |-> "faulted", fault |-> f] \in Events
  /\ \A i \in Int, l \in Logs : [kind |-> "cycle_complete", id |-> i, log |-> l] \in Events
BY DEF Events

\* The worker goes on with a frame, or rests after a report.
LEMMA FrameWorkerRests ==
  ASSUME FrameOK, UNCHANGED acquireQ, frameWorker' = Idle
  PROVE  FrameOK'
BY DEF FrameOK, Idle

LEMMA GotFrameStep ==
  ASSUME FrameOK, EventsOK, UNCHANGED acquireQ, NEW id \in Int, GotFrame(id)
  PROVE  FrameOK' /\ EventsOK'
BY EventsStable DEF FrameOK, GotFrame

LEMMA ReportEndStep ==
  ASSUME FrameOK, EventsOK, UNCHANGED acquireQ, ReportEnd
  PROVE  FrameOK' /\ EventsOK'
BY FrameWorkerRests, PostStep, ReportFacts DEF ReportEnd

LEMMA LookForFrameStep == BenchInv /\ LookForFrame => BenchInv'
<1> SUFFICES ASSUME BenchInv, LookForFrame PROVE BenchInv'
  OBVIOUS
<1>0. FrameOK /\ EventsOK /\ SourceOK /\ UNCHANGED acquireQ
  BY DEF BenchInv, LookForFrame
<1>1. FrameOK' /\ EventsOK' /\ SourceOK'
  <2>1. CASE GotFrame(simId) /\ simId' = simId + 1 /\ UNCHANGED source
    <3>1. simId \in Int /\ SourceOK'
      BY <1>0, <2>1 DEF SourceOK
    <3> QED BY <1>0, <2>1, <3>1, GotFrameStep
  <2>2. CASE ReportEnd
    BY <1>0, <2>2, ReportEndStep, SourceStable DEF ReportEnd
  <2>3. CASE frameWorker' = [at |-> "reading"] /\ UNCHANGED <<uiQ, source, simId>>
    <3>1. FrameOK'
      BY <1>0, <2>3 DEF FrameOK
    <3> QED BY <1>0, <2>3, <3>1, EventsStable, SourceStable
  <2> QED BY <2>1, <2>2, <2>3 DEF LookForFrame
<1> QED BY <1>1, UiStable, RuntimeStable, TransportStable, WorkStable, TxStable, ActionsStable
        DEF BenchInv, LookForFrame

LEMMA ReadFrameStep == BenchInv /\ ReadFrame => BenchInv'
<1> SUFFICES ASSUME BenchInv, ReadFrame PROVE BenchInv'
  OBVIOUS
<1>0. FrameOK /\ EventsOK /\ SourceOK /\ UNCHANGED acquireQ
  BY DEF BenchInv, ReadFrame
<1>1. FrameOK' /\ EventsOK' /\ SourceOK'
  <2>1. CASE /\ frameWorker' = Idle /\ Post([kind |-> "faulted", fault |-> "SAFE"])
             /\ UNCHANGED <<source, simId>>
    <3>1. "SAFE" \in Faults
      BY DEF Faults
    <3> QED BY <1>0, <2>1, <3>1, FrameWorkerRests, PostStep, ReportFacts, SourceStable
  <2>2. CASE ReportEnd
    BY <1>0, <2>2, ReportEndStep, SourceStable DEF ReportEnd
  <2>3. CASE /\ GotFrame(source.next) /\ source' = [source EXCEPT !.next = @ + 1]
             /\ UNCHANGED simId
    <3>1. source.next \in Int /\ source.next + 1 \in Int
      BY <1>0 DEF SourceOK
    <3>2. SourceOK'
      BY <1>0, <2>3, <3>1 DEF SourceOK
    <3> QED BY <1>0, <2>3, <3>1, <3>2, GotFrameStep
  <2>4. CASE /\ frameWorker' = Idle /\ Post([kind |-> "source_fault"])
             /\ UNCHANGED <<source, simId>>
    BY <1>0, <2>4, FrameWorkerRests, PostStep, ReportFacts, SourceStable
  <2> QED BY <2>1, <2>2, <2>3, <2>4 DEF ReadFrame
<1> QED BY <1>1, UiStable, RuntimeStable, TransportStable, WorkStable, TxStable, ActionsStable
        DEF BenchInv, ReadFrame

LEMMA FinishDetectionStep == BenchInv /\ FinishDetection => BenchInv'
<1> SUFFICES ASSUME BenchInv, FinishDetection PROVE BenchInv'
  OBVIOUS
<1>1. FrameOK'
  BY FrameWorkerRests DEF BenchInv, FinishDetection
<1>2. WorkOK' /\ EventsOK'
  <2>1. CASE /\ workQ' = PutDropOldest(workQ, [id |-> frameWorker.id, prev |-> prevTs], WorkQueueSize)
             /\ UNCHANGED uiQ
    <3>1. [id |-> frameWorker.id, prev |-> prevTs] \in Batches
      BY DEF BenchInv, FinishDetection, FrameOK, RuntimeOK, Batches
    <3>2. WorkOK'
      BY <2>1, <3>1, PutOldestFacts, BenchAssumption DEF BenchInv, WorkOK
    <3> QED BY <2>1, <3>2, EventsStable DEF BenchInv
  <2>2. CASE /\ \E f \in {"SAFE", "WATCHDOG"} : Post([kind |-> "faulted", fault |-> f])
             /\ UNCHANGED workQ
    <3>1. PICK f \in Faults : Post([kind |-> "faulted", fault |-> f])
      BY <2>2 DEF Faults
    <3>2. EventsOK'
      BY <3>1, PostStep, ReportFacts DEF BenchInv
    <3> QED BY <2>2, <3>2, WorkStable DEF BenchInv
  <2> QED BY <2>1, <2>2 DEF FinishDetection
<1> QED BY <1>1, <1>2, UiStable, RuntimeStable, SourceStable, TransportStable, TxStable,
           ActionsStable DEF BenchInv, FinishDetection

LEMMA TakeBatchStep == BenchInv /\ TakeBatch => BenchInv'
<1> SUFFICES ASSUME BenchInv, TakeBatch PROVE BenchInv'
  OBVIOUS
<1>1. workQ \in Seq(Batches) /\ workQ # <<>> /\ Len(workQ) <= WorkQueueSize
  BY DEF BenchInv, TakeBatch, WorkOK
<1>2. Head(workQ) \in Batches /\ Tail(workQ) \in Seq(Batches) /\ Len(Tail(workQ)) = Len(workQ) - 1
  BY <1>1, TakeFacts
<1>3. WorkOK'
  BY <1>1, <1>2, BenchAssumption DEF TakeBatch, WorkOK
<1>4. TxOK'
  BY <1>2 DEF TakeBatch, TxOK
<1> QED BY <1>3, <1>4, UiStable, RuntimeStable, SourceStable, TransportStable, FrameStable,
           EventsStable, ActionsStable DEF BenchInv, TakeBatch

\* The end of a cycle carries the id of its batch and the mode of its log.
LEMMA DoneStep ==
  ASSUME TxOK, txWorker.at = "took", NEW log \in Logs, Done(log)
  PROVE  TxOK'
<1>1. txWorker.batch.id \in Int
  BY DEF TxOK, Batches
<1> QED BY <1>1 DEF Done, TxOK

LEMMA DeathStep ==
  ASSUME Dies
  PROVE  TxOK'
BY DEF Dies, TxOK

LEMMA RunCycleStep ==
  ASSUME TransportOK, TxOK, EventsOK, txWorker.at = "took", RunCycle, cur' = cur
  PROVE  TransportOK' /\ TxOK' /\ EventsOK'
<1>1. CASE (Done("none") \/ Done("AUTO")) /\ UNCHANGED <<tr, uiQ>>
  <2>1. "none" \in Logs /\ "AUTO" \in Logs
    BY DEF Logs, Modes
  <2>2. TxOK'
    BY <1>1, <2>1, DoneStep
  <2> QED BY <1>1, <2>2, TransportStable, EventsStable
<1>2. CASE \E o \in SendAnswers(tr[1]) :
             /\ tr' = [tr EXCEPT ![1] = o.t]
             /\ \/ /\ o.log = "raise"
                   /\ txWorker' = Idle
                   /\ Post([kind |-> "faulted", fault |-> o.t.fault])
                \/ o.log = "dead" /\ Dies /\ UNCHANGED uiQ
                \/ o.log \notin {"raise", "dead"} /\ Done(o.log) /\ UNCHANGED uiQ
  <2>1. PICK o \in SendAnswers(tr[1]) :
          /\ tr' = [tr EXCEPT ![1] = o.t]
          /\ \/ /\ o.log = "raise"
                /\ txWorker' = Idle
                /\ Post([kind |-> "faulted", fault |-> o.t.fault])
             \/ o.log = "dead" /\ Dies /\ UNCHANGED uiQ
             \/ o.log \notin {"raise", "dead"} /\ Done(o.log) /\ UNCHANGED uiQ
    BY <1>2
  <2>2. o.t \in Transports /\ o.log \in SendLogs
    BY <2>1, TransportFacts, SendType
  <2>3. TransportOK'
    BY <2>1, <2>2, TransportFacts, TransportStep
  <2>4. CASE txWorker' = Idle /\ Post([kind |-> "faulted", fault |-> o.t.fault])
    <3>1. o.t.fault \in Faults
      BY <2>2 DEF Transports
    <3>2. EventsOK'
      BY <2>4, <3>1, PostStep, ReportFacts
    <3>3. TxOK'
      BY <2>4 DEF TxOK, Idle
    <3> QED BY <2>3, <3>2, <3>3
  <2>5. CASE Dies /\ UNCHANGED uiQ
    BY <2>3, <2>5, DeathStep, EventsStable
  <2>6. CASE o.log \notin {"raise", "dead"} /\ Done(o.log) /\ UNCHANGED uiQ
    <3>1. o.log \in Logs
      BY <2>2, <2>6 DEF SendLogs, Logs
    <3> QED BY <2>3, <2>6, <3>1, DoneStep, EventsStable
  <2> QED BY <2>1, <2>4, <2>5, <2>6
<1> QED BY <1>1, <1>2 DEF RunCycle

LEMMA ProcessBatchStep == BenchInv /\ ProcessBatch => BenchInv'
<1> SUFFICES ASSUME BenchInv, ProcessBatch PROVE BenchInv'
  OBVIOUS
<1>0. /\ TransportOK /\ TxOK /\ EventsOK /\ txWorker.at = "took" /\ cur' = cur
      /\ opMode \in Modes
  BY DEF BenchInv, RuntimeOK, ProcessBatch
<1>1. TransportOK' /\ TxOK' /\ EventsOK'
  <2>1. CASE Done(opMode) /\ UNCHANGED <<tr, uiQ>>
    <3>1. opMode \in Logs
      BY <1>0 DEF Logs
    <3> QED BY <1>0, <2>1, <3>1, DoneStep, TransportStable, EventsStable
  <2>2. CASE RunCycle
    BY <1>0, <2>2, RunCycleStep
  <2>3. CASE Dies /\ UNCHANGED <<tr, uiQ>>
    BY <1>0, <2>3, DeathStep, TransportStable, EventsStable
  <2> QED BY <2>1, <2>2, <2>3 DEF ProcessBatch
<1> QED BY <1>1, UiStable, RuntimeStable, SourceStable, FrameStable, WorkStable, ActionsStable
        DEF BenchInv, ProcessBatch

LEMMA FinishBatchStep == BenchInv /\ FinishBatch => BenchInv'
<1> SUFFICES ASSUME BenchInv, FinishBatch PROVE BenchInv'
  OBVIOUS
<1>1. txWorker.id \in Int /\ txWorker.log \in Logs
  BY DEF BenchInv, TxOK, FinishBatch
<1>2. TxOK'
  BY DEF FinishBatch, TxOK, Idle
<1>3. TransportOK'
  <2>1. PICK t \in StepQueue(tr[cur]) : tr' = [tr EXCEPT ![cur] = t]
    BY DEF FinishBatch
  <2>2. tr[cur] \in Transports /\ cur \in 1..2 /\ cur' = cur
    BY TransportFacts DEF BenchInv, FinishBatch
  <2>3. t \in Transports
    BY <2>2, StepQueueType
  <2> QED BY <2>1, <2>2, <2>3, TransportStep DEF BenchInv
<1>4. EventsOK'
  <2>1. "WATCHDOG" \in Faults
    BY DEF Faults
  <2> QED BY <1>1, <2>1, PostStep, ReportFacts DEF BenchInv, FinishBatch
<1> QED BY <1>2, <1>3, <1>4, UiStable, RuntimeStable, SourceStable, FrameStable, WorkStable,
           ActionsStable DEF BenchInv, FinishBatch

-----------------------------------------------------------------------------
(* The operator's actions.                                                 *)

LEMMA ClickStep ==
  ASSUME BenchInv, NEW button \in Buttons, Click(button)
  PROVE  BenchInv'
<1>1. ActionsOK'
  BY PutNewestFacts, BenchAssumption DEF BenchInv, Click, ActionsOK
<1> QED BY <1>1, UiStable, RuntimeStable, SourceStable, TransportStable, WorkersStable
        DEF BenchInv, Click

LEMMA StartActionsStep == BenchInv /\ StartActions => BenchInv'
<1> SUFFICES ASSUME BenchInv, StartActions PROVE BenchInv'
  OBVIOUS
<1>1. UiOK'
  BY StartSlotStep DEF BenchInv, StartActions, EventLoopRuns, Slots
<1> QED BY <1>1, RuntimeStable, SourceStable, TransportStable, WorkersStable, ActionsStable
        DEF BenchInv, StartActions

LEMMA EndActionsStep == BenchInv /\ EndActions => BenchInv'
<1> SUFFICES ASSUME BenchInv, EndActions PROVE BenchInv'
  OBVIOUS
<1>1. UiOK'
  BY AbortStep DEF BenchInv, EndActions, In
<1> QED BY <1>1, RuntimeStable, SourceStable, TransportStable, WorkersStable, ActionsStable
        DEF BenchInv, EndActions

LEMMA NextActionStep ==
  ASSUME ActionsOK, NEW button, NextAction(button)
  PROVE  ActionsOK' /\ In("actions") /\ stack # <<>>
<1>1. actionQ \in Seq(Buttons) /\ actionQ # <<>> /\ Len(actionQ) <= ActionQueueSize
      /\ actionQ' = Tail(actionQ)
  BY DEF ActionsOK, NextAction
<1>2. Tail(actionQ) \in Seq(Buttons) /\ Len(Tail(actionQ)) = Len(actionQ) - 1
  BY <1>1, TakeFacts
<1>3. ActionsOK'
  BY <1>1, <1>2, BenchAssumption DEF ActionsOK
<1> QED BY <1>3 DEF NextAction, In

\* What opening a source does to the parts of the invariant.
LEMMA OpenReplayStep ==
  ASSUME UiOK, SourceOK, fault \in Faults, In("actions"), OpenReplay
  PROVE  UiOK' /\ SourceOK' /\ fault' \in Faults /\ opMode' = opMode /\ tr' = tr
<1>1. UiOK'
  BY EnterStep DEF OpenReplay, States, Running, Waits
<1> QED BY <1>1 DEF OpenReplay, SourceOK, NoSource, Faults

LEMMA OpenLiveStep ==
  ASSUME UiOK, SourceOK, TransportOK, fault \in Faults, opMode \in Modes,
         In("actions"), cur' = cur, OpenLive
  PROVE  UiOK' /\ SourceOK' /\ TransportOK' /\ fault' \in Faults /\ opMode' \in Modes
<1>0. "LIVE" \in States /\ "FAULTED" \in States /\ {"live", "settled"} \subseteq Waits
      /\ "WATCHDOG" \in Faults /\ "SAFE" \in Modes /\ stack # <<>>
  BY DEF States, Running, Waits, Faults, Modes, In
<1>1. CASE /\ source' = [kind |-> "live", next |-> 0]
           /\ Enter("LIVE", "live")
           /\ UNCHANGED <<simId, opMode, fault, tr>>
  <2>1. UiOK'
    BY <1>0, <1>1, EnterStep
  <2>2. SourceOK'
    BY <1>1 DEF SourceOK
  <2>3. TransportOK'
    BY <1>1, TransportStable
  <2> QED BY <1>1, <2>1, <2>2, <2>3
<1>2. CASE /\ source' = NoSource /\ simId' = 0
           /\ \E o \in SetModeAnswers(tr[cur], "SAFE") :
                /\ tr' = [tr EXCEPT ![cur] = o.t]
                /\ opMode' = IF o.res = "ack" THEN "SAFE" ELSE opMode
                /\ IF o.res = "raise" THEN Abort ELSE Enter("LIVE", "live")
           /\ UNCHANGED fault
  <2>1. PICK o \in SetModeAnswers(tr[cur], "SAFE") :
          /\ tr' = [tr EXCEPT ![cur] = o.t]
          /\ opMode' = IF o.res = "ack" THEN "SAFE" ELSE opMode
          /\ IF o.res = "raise" THEN Abort ELSE Enter("LIVE", "live")
    BY <1>2
  <2>2. TransportOK'
    BY <1>0, <2>1, TransportFacts, SetModeType, TransportStep
  <2>3. UiOK'
    <3>1. CASE o.res = "raise"
      BY <1>0, <2>1, <3>1, AbortStep DEF Abort
    <3>2. CASE o.res # "raise"
      BY <1>0, <2>1, <3>2, EnterStep
    <3> QED BY <3>1, <3>2
  <2>4. SourceOK'
    BY <1>2 DEF SourceOK, NoSource
  <2> QED BY <1>0, <1>2, <2>1, <2>2, <2>3, <2>4
<1>3. CASE /\ source' = NoSource /\ fault' = "WATCHDOG"
           /\ Enter("FAULTED", "settled")
           /\ UNCHANGED <<simId, opMode, degraded, tr>>
  <2>1. UiOK'
    BY <1>0, <1>3, EnterStep
  <2>2. SourceOK'
    BY <1>3 DEF SourceOK, NoSource
  <2>3. TransportOK'
    BY <1>3, TransportStable
  <2> QED BY <1>0, <1>3, <2>1, <2>2, <2>3
<1> QED BY <1>1, <1>2, <1>3 DEF OpenLive

LEMMA ClearBacklogStep ==
  ASSUME FrameOK, WorkOK, EventsOK, ClearBacklog, UNCHANGED frameWorker
  PROVE  FrameOK' /\ WorkOK' /\ EventsOK'
<1>1. FrameOK'
  BY BenchAssumption DEF FrameOK, ClearBacklog
<1>2. WorkOK' /\ EventsOK'
  BY BenchAssumption DEF WorkOK, EventsOK, ClearBacklog
<1> QED BY <1>1, <1>2

LEMMA StartRunStep ==
  ASSUME BenchInv, NEW button, StartRun(button)
  PROVE  BenchInv'
<1>0. /\ UiOK /\ RuntimeOK /\ SourceOK /\ TransportOK /\ FrameOK /\ WorkOK /\ TxOK /\ EventsOK
      /\ fault \in Faults /\ opMode \in Modes
      /\ UNCHANGED <<prevTs, benchMode, kindVars, cur, frameWorker, txWorker, lastId>>
  BY DEF BenchInv, RuntimeOK, StartRun
<1>1. ActionsOK' /\ In("actions")
  BY NextActionStep DEF BenchInv, StartRun
<1>2. TxOK'
  BY <1>0, TxStable
<1>3. CASE UNCHANGED <<uiVars, opMode, fault, sourceVars, tr, acquireQ, workQ, uiQ>>
  <2>1. UNCHANGED <<runtimeVars, trVars, frameVars>>
    BY <1>0, <1>3
  <2> QED BY <1>0, <1>1, <1>2, <1>3, <2>1, UiStable, RuntimeStable, SourceStable, TransportStable,
             WorkersStable DEF BenchInv
<1>4. CASE ClearBacklog /\ IF button = "replay" THEN OpenReplay ELSE OpenLive
  <2>1. FrameOK' /\ WorkOK' /\ EventsOK'
    BY <1>0, <1>4, ClearBacklogStep
  <2>2. UiOK' /\ SourceOK' /\ TransportOK' /\ fault' \in Faults /\ opMode' \in Modes
    <3>1. CASE OpenReplay
      BY <1>0, <1>1, <3>1, OpenReplayStep, TransportStable
    <3>2. CASE OpenLive
      BY <1>0, <1>1, <3>2, OpenLiveStep
    <3> QED BY <1>4, <3>1, <3>2
  <2>3. RuntimeOK'
    BY <1>0, <2>2 DEF RuntimeOK
  <2> QED BY <1>1, <1>2, <2>1, <2>2, <2>3 DEF BenchInv
<1> QED BY <1>3, <1>4 DEF StartRun

LEMMA RunStartedStep == BenchInv /\ RunStarted => BenchInv'
<1> SUFFICES ASSUME BenchInv, RunStarted PROVE BenchInv'
  OBVIOUS
<1>1. UiOK'
  BY ReturnStep DEF BenchInv, RunStarted, In
<1>2. RuntimeOK'
  BY DEF BenchInv, RunStarted, RuntimeOK
<1> QED BY <1>1, <1>2, SourceStable, TransportStable, WorkersStable, ActionsStable
        DEF BenchInv, RunStarted

LEMMA HomeStep == BenchInv /\ Home => BenchInv'
<1> SUFFICES ASSUME BenchInv, Home PROVE BenchInv'
  OBVIOUS
<1>0. /\ UiOK /\ TransportOK /\ opMode \in Modes /\ cur' = cur
      /\ "IDLE" \in States /\ {"home", "recovered"} \subseteq Waits /\ "MANUAL" \in Modes
  BY DEF BenchInv, RuntimeOK, Home, States, Waits, Modes
<1>1. ActionsOK' /\ In("actions") /\ stack # <<>>
  BY NextActionStep DEF BenchInv, Home
<1>2. UiOK' /\ TransportOK' /\ opMode' \in Modes
  <2>1. CASE \E o \in SetModeAnswers(tr[cur], "MANUAL") :
               /\ tr' = [tr EXCEPT ![cur] = o.t]
               /\ opMode' = IF o.res = "ack" THEN "MANUAL" ELSE opMode
               /\ CASE o.res = "ack"   -> Enter("IDLE", "recovered")
                    [] o.res = "nack"  -> UNCHANGED uiVars
                    [] o.res = "raise" -> Abort
    <3>1. PICK o \in SetModeAnswers(tr[cur], "MANUAL") :
            /\ tr' = [tr EXCEPT ![cur] = o.t]
            /\ opMode' = IF o.res = "ack" THEN "MANUAL" ELSE opMode
            /\ CASE o.res = "ack"   -> Enter("IDLE", "recovered")
                 [] o.res = "nack"  -> UNCHANGED uiVars
                 [] o.res = "raise" -> Abort
      BY <2>1
    <3>2. o.t \in Transports /\ o.res \in Results
      BY <1>0, TransportFacts, SetModeType
    <3>3. TransportOK'
      BY <1>0, <3>1, <3>2, TransportFacts, TransportStep
    <3>4. UiOK'
      <4>1. CASE o.res = "ack"
        <5>1. Enter("IDLE", "recovered")
          BY <3>1, <4>1
        <5> QED BY <1>0, <1>1, <5>1, EnterStep
      <4>2. CASE o.res = "nack"
        <5>1. UNCHANGED uiVars
          BY <3>1, <4>2
        <5> QED BY <1>0, <5>1, UiStable
      <4>3. CASE o.res = "raise"
        <5>1. Abort
          BY <3>1, <4>3
        <5> QED BY <1>0, <1>1, <5>1, AbortStep DEF Abort
      <4> QED BY <3>2, <4>1, <4>2, <4>3 DEF Results
    <3> QED BY <1>0, <3>1, <3>3, <3>4
  <2>2. CASE UNCHANGED <<uiVars, opMode, tr>>
    BY <1>0, <2>2, UiStable, TransportStable
  <2>3. CASE EnterIfAllowed("IDLE", "home") /\ UNCHANGED <<opMode, tr>>
    BY <1>0, <1>1, <2>3, EnterIfAllowedStep, TransportStable
  <2> QED BY <2>1, <2>2, <2>3 DEF Home
<1>3. RuntimeOK'
  BY <1>2 DEF BenchInv, Home, RuntimeOK
<1> QED BY <1>1, <1>2, <1>3, SourceStable, WorkersStable DEF BenchInv, Home

LEMMA RecoveredStep == BenchInv /\ Recovered => BenchInv'
<1> SUFFICES ASSUME BenchInv, Recovered PROVE BenchInv'
  OBVIOUS
<1>1. UiOK'
  BY ReturnStep DEF BenchInv, Recovered, In
<1>2. RuntimeOK'
  BY DEF BenchInv, Recovered, RuntimeOK, Faults
<1> QED BY <1>1, <1>2, SourceStable, TransportStable, WorkersStable, ActionsStable
        DEF BenchInv, Recovered

LEMMA HomeReachedStep == BenchInv /\ HomeReached => BenchInv'
<1> SUFFICES ASSUME BenchInv, HomeReached PROVE BenchInv'
  OBVIOUS
<1>1. FrameOK' /\ WorkOK' /\ EventsOK'
  BY ClearBacklogStep DEF BenchInv, HomeReached
<1>2. PICK o \in ResetQueueAnswers(tr[cur]) :
        /\ tr' = [tr EXCEPT ![cur] = o.t]
        /\ \/ /\ source' = NoSource /\ prevTs' = 0 /\ fault' = "NORMAL"
              /\ stack' = Rest
           \/ /\ stack' = SubSeq(stack, 1, Len(stack) - 2)
              /\ UNCHANGED <<source, prevTs, fault>>
  BY DEF HomeReached
<1>3. TransportOK'
  BY <1>2, TransportFacts, ResetQueueType, TransportStep DEF BenchInv, HomeReached
<1>4. UiOK'
  <2>1. StackOK /\ stack # <<>> /\ Top.at \in Waits
    BY DEF BenchInv, UiOK, HomeReached, In, Waits
  <2>2. StackOK'
    BY <1>2, <2>1, PopStack, PopTwo
  <2> QED BY <2>2, RestartIsHarmless DEF BenchInv, HomeReached
<1>5. SourceOK'
  BY <1>2 DEF BenchInv, HomeReached, SourceOK, NoSource
<1>6. RuntimeOK'
  BY <1>2 DEF BenchInv, HomeReached, RuntimeOK, Faults
<1> QED BY <1>1, <1>3, <1>4, <1>5, <1>6, TxStable, ActionsStable DEF BenchInv, HomeReached

LEMMA SelectKindStep ==
  ASSUME BenchInv, NEW kind, SelectKind(kind)
  PROVE  BenchInv'
<1>1. ActionsOK'
  BY NextActionStep DEF BenchInv, SelectKind
<1> QED BY <1>1, UiStable, RuntimeStable, SourceStable, TransportStable, WorkersStable
        DEF BenchInv, SelectKind

LEMMA SerialConnectStep == BenchInv /\ SerialConnect => BenchInv'
<1> SUFFICES ASSUME BenchInv, SerialConnect PROVE BenchInv'
  OBVIOUS
<1>1. ActionsOK'
  BY NextActionStep DEF BenchInv, SerialConnect
<1>2. TransportOK'
  <2>1. ASSUME NEW kind \in {"mock", "serial"}, Reconnect(kind) PROVE TransportOK'
    <3>1. NewTransport(kind) \in Transports /\ 2 \in 1..2
      BY NewTransportType
    <3> QED BY <2>1, <3>1, TransportStep DEF BenchInv, Reconnect
  <2>2. CASE UNCHANGED trVars
    BY <2>2, TransportStable DEF BenchInv
  <2> QED BY <2>1, <2>2 DEF SerialConnect
<1> QED BY <1>1, <1>2, UiStable, RuntimeStable, SourceStable, WorkersStable
        DEF BenchInv, SerialConnect

LEMMA SerialDisconnectStep == BenchInv /\ SerialDisconnect => BenchInv'
<1> SUFFICES ASSUME BenchInv, SerialDisconnect PROVE BenchInv'
  OBVIOUS
<1>1. ActionsOK'
  BY NextActionStep DEF BenchInv, SerialDisconnect
<1>2. TransportOK'
  <2> DEFINE t == [tr[cur] EXCEPT !.kind = "closed"]
  <2>1. t \in Transports /\ cur \in 1..2 /\ cur' = cur /\ TransportOK
    BY TransportFacts DEF BenchInv, SerialDisconnect, Transports
  <2>2. tr' = tr \/ tr' = [tr EXCEPT ![cur] = t]
    BY DEF SerialDisconnect
  <2> HIDE DEF t
  <2> QED BY <2>1, <2>2, TransportStep, TransportStable
<1> QED BY <1>1, <1>2, UiStable, RuntimeStable, SourceStable, WorkersStable
        DEF BenchInv, SerialDisconnect

LEMMA FireTestStep == BenchInv /\ FireTest => BenchInv'
<1> SUFFICES ASSUME BenchInv, FireTest PROVE BenchInv'
  OBVIOUS
<1>1. ActionsOK' /\ stack # <<>>
  BY NextActionStep DEF BenchInv, FireTest
<1>2. UiOK' /\ TransportOK'
  <2>0. UiOK /\ TransportOK /\ cur' = cur
    BY DEF BenchInv, FireTest
  <2>1. CASE UNCHANGED <<tr, uiVars>>
    BY <2>0, <2>1, UiStable, TransportStable
  <2>2. CASE \E o \in SendAnswers(tr[cur]) :
               /\ tr' = [tr EXCEPT ![cur] = o.t]
               /\ IF o.log \in {"raise", "dead"} THEN Abort ELSE UNCHANGED uiVars
    <3>1. PICK o \in SendAnswers(tr[cur]) :
            /\ tr' = [tr EXCEPT ![cur] = o.t]
            /\ (Abort \/ UNCHANGED uiVars)
      BY <2>2
    <3>2. TransportOK'
      BY <2>0, <3>1, TransportFacts, SendType, TransportStep
    <3>3. UiOK'
      BY <1>1, <2>0, <3>1, AbortStep, UiStable DEF Abort
    <3> QED BY <3>2, <3>3
  <2> QED BY <2>1, <2>2 DEF FireTest
<1> QED BY <1>1, <1>2, RuntimeStable, SourceStable, WorkersStable DEF BenchInv, FireTest

-----------------------------------------------------------------------------
LEMMA BenchInitInv == Init => BenchInv
<1> SUFFICES ASSUME Init PROVE BenchInv
  OBVIOUS
<1>1. UiOK
  <2>1. StackOK
    <3>1. stack = <<>> /\ Len(stack) = 0
      BY DEF Init
    <3> QED BY <3>1 DEF StackOK
  <2>2. timer = FALSE /\ ctl = "IDLE"
    BY DEF Init
  <2>3. timer \in BOOLEAN /\ (timer <=> ctl \in Running) /\ ctl \in States
    BY <2>2 DEF States, Running
  <2> QED BY <2>1, <2>3 DEF UiOK
<1>2. RuntimeOK /\ SourceOK
  BY DEF Init, RuntimeOK, SourceOK, NoSource, Modes, Faults
<1>3. TransportOK
  <2>1. NewTransport(selected) \in Transports
    BY NewTransportType, BenchAssumption DEF Init
  <2> QED BY <2>1 DEF Init, TransportOK
<1>4. FrameOK /\ TxOK
  BY BenchAssumption DEF Init, FrameOK, TxOK, Idle
<1>5. WorkOK /\ EventsOK /\ ActionsOK
  BY BenchAssumption DEF Init, WorkOK, EventsOK, ActionsOK
<1> QED BY <1>1, <1>2, <1>3, <1>4, <1>5 DEF BenchInv

LEMMA BenchStepInv == BenchInv /\ [Next]_vars => BenchInv'
<1> SUFFICES ASSUME BenchInv, [Next]_vars PROVE BenchInv'
  OBVIOUS
<1>1. CASE CycleSlot
  BY <1>1, CycleTickStep, EndTickStep, SettledStep, DrainSourceFaultStep, DrainReplayCompleteStep,
     DrainFaultedStep, DrainCycleCompleteStep DEF CycleSlot
<1>2. CASE ActionSlot
  BY <1>2, StartActionsStep, EndActionsStep, StartRunStep, RunStartedStep, HomeStep, RecoveredStep,
     HomeReachedStep, SelectKindStep, SerialConnectStep, SerialDisconnectStep, FireTestStep
     DEF ActionSlot
<1>3. CASE FrameWorker
  BY <1>3, TakeRequestStep, LookForFrameStep, ReadFrameStep, FinishDetectionStep DEF FrameWorker
<1>4. CASE TransportWorker
  BY <1>4, TakeBatchStep, ProcessBatchStep, FinishBatchStep DEF TransportWorker
<1>5. CASE \E button \in Buttons : Click(button)
  BY <1>5, ClickStep
<1>6. CASE UNCHANGED vars
  BY <1>6, UiStable, RuntimeStable, SourceStable, TransportStable, WorkersStable, ActionsStable
     DEF BenchInv, vars
<1> QED BY <1>1, <1>2, <1>3, <1>4, <1>5, <1>6 DEF Next

THEOREM BenchInvariant == Spec => []BenchInv
<1>1. Init => BenchInv
  BY BenchInitInv
<1>2. BenchInv /\ [Next]_vars => BenchInv'
  BY BenchStepInv
<1> QED BY <1>1, <1>2, PTL DEF Spec

\* No queue of the application exceeds its bound, the calls of the UI thread
\* nest four deep at most, and a transport's queue keeps to its depth.
THEOREM QueuesStayBounded == Spec => []BenchTypeOK
<1>1. BenchInv => BenchTypeOK
  <2> SUFFICES ASSUME BenchInv PROVE BenchTypeOK
    OBVIOUS
  <2>1. \A i \in 1..2 : tr[i].depth \in 0..MaxQueueDepth
    BY DEF BenchInv, TransportOK, Transports
  <2>2. Len(stack) \in 0..4
    BY DEF BenchInv, UiOK, StackOK
  <2>3. Len(stack) <= 4
    <3>1. \A n \in 0..4 : n <= 4
      OBVIOUS
    <3> QED BY <2>2, <3>1, Zenon
  <2>4. ctl \in States /\ opMode \in Modes /\ fault \in Faults
    BY DEF BenchInv, UiOK, RuntimeOK
  <2>5. acquireQ \in 0..RequestQueueSize /\ Len(workQ) <= WorkQueueSize
        /\ Len(uiQ) <= UiQueueSize /\ Len(actionQ) <= ActionQueueSize
    BY DEF BenchInv, FrameOK, WorkOK, EventsOK, ActionsOK
  <2> QED BY <2>1, <2>3, <2>4, <2>5 DEF BenchTypeOK
<1> QED BY <1>1, BenchInvariant, PTL

\* The cycle timer is active exactly in a running state, whichever action ran
\* inside whichever wait.
THEOREM TimerAlwaysFollowsRun == Spec => []TimerFollowsRun
<1>1. BenchInv => TimerFollowsRun
  BY DEF BenchInv, UiOK, TimerFollowsRun
<1> QED BY <1>1, BenchInvariant, PTL

-----------------------------------------------------------------------------
(* Nothing is dispatched in SAFE.                                          *)

\* A mock in SAFE mode refuses every job by its fault state, ...
Refuses(t) == t.kind = "mock" /\ t.mode = "SAFE" => t.fault = "SAFE"

\* ... and the mock of a controller in SAFE is in SAFE or new.
SafeInv == /\ \A i \in 1..2 : Refuses(tr[i])
           /\ ctl = "SAFE" /\ tr[cur].kind = "mock" => tr[cur].mode \in {"SAFE", "AUTO"}

DispatchStep == ctl = "SAFE" /\ ctl' = "SAFE" /\ tr[cur].kind = "mock" /\ tr[cur].mode # "AUTO" =>
                  tr'[cur].depth <= tr[cur].depth

\* What a call other than SET_MODE makes of a transport.
Serves(t, u) == /\ t.kind = "mock" <=> u.kind = "mock"
                /\ t.kind = "mock" => u.mode = t.mode
                /\ t.kind = "mock" /\ t.mode = "SAFE" => u.fault = "SAFE" /\ u.depth <= t.depth

LEMMA SendServes ==
  ASSUME NEW t \in Transports, Refuses(t), NEW o \in SendAnswers(t)
  PROVE  Serves(t, o.t)
<1>1. /\ t.kind \in {"mock", "serial", "closed"} /\ t.depth \in 0..MaxQueueDepth
      /\ MaxQueueDepth \in Nat /\ t.depth <= t.depth
  BY BenchAssumption DEF Transports
<1>2. CASE t.kind = "mock" /\ t.fault = "SAFE"
  <2>1. o.t = t
    BY <1>2 DEF SendAnswers
  <2> QED BY <1>1, <1>2, <2>1 DEF Serves
<1>3. CASE t.kind = "mock" /\ t.fault # "SAFE"
  <2>1. t.mode # "SAFE"
    BY <1>3 DEF Refuses
  <2>2. \/ o.t = [t EXCEPT !.fault = "NORMAL"]
        \/ o.t = [t EXCEPT !.depth = @ + 1, !.fault = IF t.mode = "SAFE" THEN "SAFE" ELSE "NORMAL"]
    BY <1>1, <1>3 DEF SendAnswers
  <2>3. o.t.kind = t.kind /\ o.t.mode = t.mode
    BY <2>2 DEF Transports
  <2> QED BY <2>1, <2>3 DEF Serves
<1>4. CASE t.kind = "serial"
  <2>1. \E f \in Faults : o.t = [t EXCEPT !.fault = f]
    BY <1>4 DEF SendAnswers, Faults
  <2>2. o.t.kind = t.kind
    BY <2>1 DEF Transports
  <2> QED BY <1>4, <2>2 DEF Serves
<1>5. CASE t.kind = "closed"
  <2>1. o.t = t
    BY <1>5 DEF SendAnswers
  <2> QED BY <1>5, <2>1 DEF Serves
<1> QED BY <1>1, <1>2, <1>3, <1>4, <1>5

LEMMA SerialServes ==
  ASSUME NEW t \in Transports, t.kind = "serial", NEW o \in SerialAnswers(t)
  PROVE  o.t.kind = "serial"
BY DEF SerialAnswers, Transports

LEMMA ResetServes ==
  ASSUME NEW t \in Transports, NEW o \in ResetQueueAnswers(t)
  PROVE  Serves(t, o.t)
<1>1. /\ t.kind \in {"mock", "serial", "closed"} /\ t.depth \in 0..MaxQueueDepth
      /\ MaxQueueDepth \in Nat
  BY BenchAssumption DEF Transports
<1>2. CASE t.kind = "mock"
  <2> DEFINE u == [t EXCEPT !.depth = 0, !.fault = IF t.mode = "SAFE" THEN "SAFE" ELSE "NORMAL"]
  <2>1. o.t = u
    BY <1>2 DEF ResetQueueAnswers
  <2>2. u.kind = t.kind /\ u.mode = t.mode /\ u.depth = 0 /\ (t.mode = "SAFE" => u.fault = "SAFE")
    BY DEF Transports
  <2> HIDE DEF u
  <2> QED BY <1>1, <2>1, <2>2 DEF Serves
<1>3. CASE t.kind = "serial"
  <2>1. o \in SerialAnswers(t)
    BY <1>3 DEF ResetQueueAnswers
  <2> QED BY <1>3, <2>1, SerialServes DEF Serves
<1>4. CASE t.kind = "closed"
  <2>1. o.t = t
    BY <1>4 DEF ResetQueueAnswers
  <2> QED BY <1>4, <2>1 DEF Serves
<1> QED BY <1>1, <1>2, <1>3, <1>4

LEMMA StepQueueServes ==
  ASSUME NEW t \in Transports, Refuses(t), NEW u \in StepQueue(t)
  PROVE  Serves(t, u)
<1>1. t.depth \in 0..MaxQueueDepth /\ MaxQueueDepth \in Nat
  BY BenchAssumption DEF Transports
<1>2. \/ u = t \/ u = [t EXCEPT !.depth = 0]
      \/ u = [t EXCEPT !.depth = IF t.depth = 0 THEN 0 ELSE t.depth - 1]
  BY BenchAssumption DEF StepQueue
<1>3. u.kind = t.kind /\ u.mode = t.mode /\ u.fault = t.fault
  BY <1>2 DEF Transports
<1>4. u.depth \in {t.depth, 0, IF t.depth = 0 THEN 0 ELSE t.depth - 1}
  BY <1>2 DEF Transports
<1>5. u.depth <= t.depth
  BY <1>1, <1>4
<1> QED BY <1>3, <1>5 DEF Refuses, Serves

\* A mock obeys SAFE and MANUAL.
LEMMA SetModeObeyed ==
  ASSUME NEW t \in Transports, NEW m \in {"SAFE", "MANUAL"}, NEW o \in SetModeAnswers(t, m)
  PROVE  /\ t.kind = "mock" <=> o.t.kind = "mock"
         /\ t.kind = "mock" => o.res = "ack" /\ o.t.mode = m
         /\ t.kind = "mock" /\ m = "SAFE" => o.t.fault = "SAFE" /\ o.t.depth <= t.depth
<1>1. /\ t.kind \in {"mock", "serial", "closed"} /\ t.depth \in 0..MaxQueueDepth
      /\ MaxQueueDepth \in Nat
  BY BenchAssumption DEF Transports
<1>2. CASE t.kind = "mock"
  <2> DEFINE u == [t EXCEPT !.mode = m, !.depth = IF m = t.mode THEN @ ELSE 0,
                            !.fault = IF m = "SAFE" THEN "SAFE" ELSE "NORMAL"]
  <2>1. o = [res |-> "ack", t |-> u]
    BY <1>2 DEF SetModeAnswers
  <2>2. /\ u.kind = t.kind /\ u.mode = m /\ (m = "SAFE" => u.fault = "SAFE")
        /\ u.depth = IF m = t.mode THEN t.depth ELSE 0
    BY DEF Transports
  <2> HIDE DEF u
  <2>3. o.res = "ack" /\ o.t = u
    BY <2>1
  <2> QED BY <1>1, <1>2, <2>2, <2>3
<1>3. CASE t.kind = "serial"
  <2>1. o \in SerialAnswers(t)
    BY <1>3 DEF SetModeAnswers
  <2> QED BY <1>3, <2>1, SerialServes
<1>4. CASE t.kind = "closed"
  <2>1. o.t = t
    BY <1>4 DEF SetModeAnswers
  <2> QED BY <1>4, <2>1
<1> QED BY <1>1, <1>2, <1>3, <1>4

\* A step that enters SAFE by no way, and only uses the transports.
LEMMA SafeKept ==
  ASSUME SafeInv, UNCHANGED trVars, ctl' = ctl \/ ctl' # "SAFE", TransportOK
  PROVE  SafeInv' /\ DispatchStep
<1>1. tr'[cur].depth <= tr[cur].depth
  <2>1. tr[cur].depth \in 0..MaxQueueDepth /\ MaxQueueDepth \in Nat
    BY TransportFacts, BenchAssumption DEF Transports
  <2> QED BY <2>1
<1> QED BY <1>1 DEF SafeInv, DispatchStep, Refuses

LEMMA SafeServed ==
  ASSUME SafeInv, TransportOK, NEW i \in 1..2, NEW u, Serves(tr[i], u),
         tr' = [tr EXCEPT ![i] = u], cur' = cur, ctl' = ctl \/ ctl' # "SAFE"
  PROVE  SafeInv' /\ DispatchStep
<1>1. /\ tr \in [1..2 -> Transports] /\ cur \in 1..2
      /\ tr[cur].depth \in 0..MaxQueueDepth /\ MaxQueueDepth \in Nat
  BY TransportFacts, BenchAssumption DEF TransportOK, Transports
<1>2. tr'[i] = u /\ \A j \in 1..2 : j # i => tr'[j] = tr[j]
  BY <1>1
<1>3. \A j \in 1..2 : Serves(tr[j], tr'[j]) \/ tr'[j] = tr[j]
  BY <1>2
<1>4. \A j \in 1..2 : Refuses(tr'[j])
  BY <1>3 DEF SafeInv, Refuses, Serves
<1>5. (tr'[cur].kind = "mock" <=> tr[cur].kind = "mock")
      /\ (tr[cur].kind = "mock" => tr'[cur].mode = tr[cur].mode)
  BY <1>1, <1>3 DEF Serves
<1>6. SafeInv'
  BY <1>4, <1>5 DEF SafeInv, Refuses
<1>7. DispatchStep
  BY <1>1, <1>3 DEF SafeInv, DispatchStep, Serves
<1> QED BY <1>6, <1>7

\* The SET_MODE of the controller.
LEMMA SafeCommanded ==
  ASSUME SafeInv, TransportOK, NEW m \in {"SAFE", "MANUAL"}, NEW o \in SetModeAnswers(tr[cur], m),
         tr' = [tr EXCEPT ![cur] = o.t], cur' = cur,
         tr[cur].kind = "mock" => (m = "SAFE" \/ ctl' # "SAFE")
  PROVE  SafeInv' /\ DispatchStep
<1>1. /\ tr \in [1..2 -> Transports] /\ cur \in 1..2 /\ tr[cur] \in Transports
      /\ tr[cur].depth \in 0..MaxQueueDepth /\ MaxQueueDepth \in Nat
  BY TransportFacts, BenchAssumption DEF TransportOK, Transports
<1>2. tr'[cur] = o.t /\ \A j \in 1..2 : j # cur => tr'[j] = tr[j]
  BY <1>1
<1>3. /\ tr[cur].kind = "mock" <=> o.t.kind = "mock"
      /\ tr[cur].kind = "mock" => o.t.mode = m
      /\ tr[cur].kind = "mock" /\ m = "SAFE" => o.t.fault = "SAFE" /\ o.t.depth <= tr[cur].depth
  BY <1>1, SetModeObeyed
<1>4. \A j \in 1..2 : Refuses(tr'[j])
  BY <1>2, <1>3 DEF SafeInv, Refuses
<1>5. SafeInv'
  BY <1>2, <1>3, <1>4 DEF SafeInv, Refuses
<1>6. DispatchStep
  BY <1>2, <1>3 DEF DispatchStep
<1> QED BY <1>5, <1>6

LEMMA NoEntry ==
  /\ UNCHANGED uiVars => ctl' = ctl
  /\ \A target \in States, label \in Waits :
       target # "SAFE" => /\ Enter(target, label) => ctl' # "SAFE"
                          /\ EnterIfAllowed(target, label) => ctl' = ctl \/ ctl' # "SAFE"
  /\ Abort => ctl' = ctl
  /\ Return => ctl' = ctl
BY DEF Enter, EnterIfAllowed, Abort, Return

LEMMA CycleSlotSafe ==
  ASSUME BenchInv, SafeInv, CycleSlot
  PROVE  SafeInv' /\ DispatchStep
<1>0. TransportOK
  BY DEF BenchInv
<1>1. CASE CycleTick \/ EndTick \/ Settled
  <2>1. UNCHANGED trVars /\ ctl' = ctl
    BY <1>1 DEF CycleTick, EndTick, Settled, Return
  <2> QED BY <1>0, <2>1, SafeKept
<1>2. CASE DrainSourceFault \/ DrainReplayComplete \/ DrainFaulted
  <2>1. UNCHANGED trVars /\ (ctl' = ctl \/ ctl' # "SAFE")
    BY <1>2, NoEntry DEF DrainSourceFault, DrainReplayComplete, DrainFaulted, States, Waits
  <2> QED BY <1>0, <2>1, SafeKept
<1>3. CASE DrainCycleComplete
  <2>1. CASE UNCHANGED <<uiVars, tr>> \/ (EnterIfAllowed("FAULTED", "settled") /\ UNCHANGED tr)
    <3>1. UNCHANGED trVars /\ (ctl' = ctl \/ ctl' # "SAFE")
      BY <1>3, <2>1, NoEntry DEF DrainCycleComplete, States, Waits
    <3> QED BY <1>0, <3>1, SafeKept
  <2>2. CASE CommandSafe(uiQ[1].log)
    <3>1. PICK first \in SetModeAnswers(tr[cur], "SAFE") :
            \/ tr' = [tr EXCEPT ![cur] = first.t]
            \/ /\ first.res # "ack"
               /\ \E second \in SetModeAnswers(first.t, "SAFE") : tr' = [tr EXCEPT ![cur] = second.t]
      BY <2>2 DEF CommandSafe
    <3>2. tr[cur] \in Transports /\ cur \in 1..2 /\ cur' = cur /\ "SAFE" \in Modes
      BY <1>0, <1>3, TransportFacts DEF DrainCycleComplete, Modes
    <3>3. CASE tr' = [tr EXCEPT ![cur] = first.t]
      BY <1>0, <3>2, <3>3, SafeCommanded
    <3>4. CASE first.res # "ack" /\ \E second \in SetModeAnswers(first.t, "SAFE") :
                 tr' = [tr EXCEPT ![cur] = second.t]
      <4>1. PICK second \in SetModeAnswers(first.t, "SAFE") : tr' = [tr EXCEPT ![cur] = second.t]
        BY <3>4
      <4>2. tr[cur].kind # "mock" /\ first.t.kind # "mock" /\ first.t \in Transports
        BY <3>2, <3>4, SetModeObeyed, SetModeType
      <4>3. second.t.kind # "mock"
        BY <4>2, SetModeObeyed
      <4>4. tr'[cur].kind # "mock" /\ \A j \in 1..2 : j # cur => tr'[j] = tr[j]
        BY <1>0, <3>2, <4>1, <4>3 DEF TransportOK
      <4> QED BY <3>2, <4>2, <4>4 DEF SafeInv, DispatchStep, Refuses
    <3> QED BY <3>1, <3>3, <3>4
  <2> QED BY <1>3, <2>1, <2>2 DEF DrainCycleComplete
<1> QED BY <1>1, <1>2, <1>3 DEF CycleSlot

LEMMA ActionSlotSafe ==
  ASSUME BenchInv, SafeInv, ActionSlot
  PROVE  SafeInv' /\ DispatchStep
<1>0. /\ TransportOK /\ tr[cur] \in Transports /\ cur \in 1..2
      /\ Refuses(tr[1]) /\ Refuses(tr[2]) /\ Refuses(tr[cur])
  BY TransportFacts DEF BenchInv, SafeInv
<1>1. CASE StartActions \/ EndActions \/ RunStarted \/ Recovered \/ SelectKind("mock") \/ SelectKind("serial")
  <2>1. UNCHANGED trVars /\ ctl' = ctl
    BY <1>1 DEF StartActions, EndActions, RunStarted, Recovered, SelectKind, Return
  <2> QED BY <1>0, <2>1, SafeKept
<1>2. ASSUME NEW button \in {"replay", "live"}, StartRun(button) PROVE SafeInv' /\ DispatchStep
  <2>1. CASE ctl # "IDLE" /\ UNCHANGED <<uiVars, tr>>
    <3>1. UNCHANGED trVars /\ ctl' = ctl
      BY <1>2, <2>1 DEF StartRun
    <3> QED BY <1>0, <3>1, SafeKept
  <2>2. CASE ctl = "IDLE" /\ (OpenReplay \/ OpenLive)
    <3>1. ctl' # "SAFE" /\ cur' = cur
      BY <1>2, <2>2, NoEntry DEF StartRun, OpenReplay, OpenLive, States, Waits, Enter, Abort
    <3>2. UNCHANGED tr \/ \E o \in SetModeAnswers(tr[cur], "SAFE") : tr' = [tr EXCEPT ![cur] = o.t]
      BY <2>2 DEF OpenReplay, OpenLive
    <3>3. CASE UNCHANGED tr
      BY <1>0, <3>1, <3>3, SafeKept
    <3>4. CASE \E o \in SetModeAnswers(tr[cur], "SAFE") : tr' = [tr EXCEPT ![cur] = o.t]
      BY <1>0, <3>1, <3>4, SafeCommanded
    <3> QED BY <3>2, <3>3, <3>4
  <2> QED BY <1>2, <2>1, <2>2 DEF StartRun
<1>3. CASE Home
  <2>1. CASE \E o \in SetModeAnswers(tr[cur], "MANUAL") :
               /\ tr' = [tr EXCEPT ![cur] = o.t]
               /\ o.res = "ack" => Enter("IDLE", "recovered")
    <3>1. PICK o \in SetModeAnswers(tr[cur], "MANUAL") :
            /\ tr' = [tr EXCEPT ![cur] = o.t]
            /\ o.res = "ack" => Enter("IDLE", "recovered")
      BY <2>1
    <3>2. tr[cur].kind = "mock" => o.res = "ack"
      BY <1>0, SetModeObeyed
    <3>3. tr[cur].kind = "mock" => ctl' # "SAFE"
      BY <3>1, <3>2 DEF Enter
    <3>4. cur' = cur
      BY <1>3 DEF Home
    <3> QED BY <1>0, <3>1, <3>3, <3>4, SafeCommanded
  <2>2. CASE UNCHANGED tr /\ (UNCHANGED uiVars \/ EnterIfAllowed("IDLE", "home"))
    <3>1. UNCHANGED trVars /\ (ctl' = ctl \/ ctl' # "SAFE")
      BY <1>3, <2>2, NoEntry DEF Home, States, Waits
    <3> QED BY <1>0, <3>1, SafeKept
  <2> QED BY <1>3, <2>1, <2>2 DEF Home
<1>4. CASE HomeReached
  <2>1. PICK o \in ResetQueueAnswers(tr[cur]) : tr' = [tr EXCEPT ![cur] = o.t]
    BY <1>4 DEF HomeReached
  <2>2. cur' = cur /\ ctl' = ctl
    BY <1>4 DEF HomeReached
  <2> QED BY <1>0, <2>1, <2>2, ResetServes, SafeServed
<1>5. CASE SerialConnect
  <2>1. CASE UNCHANGED trVars
    <3>1. ctl' = ctl
      BY <1>5 DEF SerialConnect
    <3> QED BY <1>0, <2>1, <3>1, SafeKept
  <2>2. CASE \E kind \in {"mock", "serial"} : Reconnect(kind)
    <3>1. PICK kind \in {"mock", "serial"} : cur' = 2 /\ tr' = [tr EXCEPT ![2] = NewTransport(kind)]
      BY <2>2 DEF Reconnect
    <3>2. tr'[2] = NewTransport(kind) /\ tr'[1] = tr[1]
      BY <1>0, <3>1 DEF TransportOK
    <3>3. NewTransport(kind).mode = "AUTO"
      BY DEF NewTransport
    <3>4. SafeInv'
      BY <1>0, <3>1, <3>2, <3>3 DEF SafeInv, Refuses
    <3>5. DispatchStep
      <4>1. tr[cur].depth \in 0..MaxQueueDepth /\ MaxQueueDepth \in Nat
        BY <1>0, BenchAssumption DEF Transports
      <4>2. tr'[cur] = tr[cur] \/ tr'[cur].depth = 0
        BY <1>0, <3>2 DEF NewTransport
      <4> QED BY <4>1, <4>2 DEF DispatchStep
    <3> QED BY <3>4, <3>5
  <2> QED BY <1>5, <2>1, <2>2 DEF SerialConnect
<1>6. CASE SerialDisconnect
  <2>1. ctl' = ctl /\ cur' = cur
    BY <1>6 DEF SerialDisconnect
  <2>2. CASE tr' = tr
    BY <1>0, <2>1, <2>2, SafeKept
  <2>3. CASE tr[cur].kind # "mock" /\ tr' = [tr EXCEPT ![cur].kind = "closed"]
    <3> DEFINE u == [tr[cur] EXCEPT !.kind = "closed"]
    <3>1. tr' = [tr EXCEPT ![cur] = u] /\ u.kind = "closed"
      BY <1>0, <2>3 DEF TransportOK, Transports
    <3>2. Serves(tr[cur], u)
      BY <2>3, <3>1 DEF Serves
    <3> HIDE DEF u
    <3> QED BY <1>0, <2>1, <3>1, <3>2, SafeServed
  <2> QED BY <1>6, <2>2, <2>3 DEF SerialDisconnect
<1>7. CASE FireTest
  <2>1. ctl' = ctl /\ cur' = cur
    BY <1>7 DEF FireTest, Abort
  <2>2. UNCHANGED tr \/ \E o \in SendAnswers(tr[cur]) : tr' = [tr EXCEPT ![cur] = o.t]
    BY <1>7 DEF FireTest
  <2>3. CASE UNCHANGED tr
    BY <1>0, <2>1, <2>3, SafeKept
  <2>4. CASE \E o \in SendAnswers(tr[cur]) : tr' = [tr EXCEPT ![cur] = o.t]
    BY <1>0, <2>1, <2>4, SendServes, SafeServed
  <2> QED BY <2>2, <2>3, <2>4
<1> QED BY <1>1, <1>2, <1>3, <1>4, <1>5, <1>6, <1>7 DEF ActionSlot

LEMMA WorkersSafe ==
  ASSUME BenchInv, SafeInv, FrameWorker \/ TransportWorker
  PROVE  SafeInv' /\ DispatchStep
<1>0. /\ TransportOK /\ tr[cur] \in Transports /\ tr[1] \in Transports /\ cur \in 1..2
      /\ Refuses(tr[1]) /\ Refuses(tr[cur]) /\ 1 \in 1..2
  BY TransportFacts DEF BenchInv, SafeInv
<1>1. CASE FrameWorker \/ TakeBatch
  <2>1. UNCHANGED trVars /\ ctl' = ctl
    BY <1>1 DEF FrameWorker, TakeRequest, LookForFrame, ReadFrame, FinishDetection, TakeBatch
  <2> QED BY <1>0, <2>1, SafeKept
<1>2. CASE ProcessBatch
  <2>1. cur' = cur /\ ctl' = ctl
    BY <1>2 DEF ProcessBatch
  <2>2. UNCHANGED tr \/ \E o \in SendAnswers(tr[1]) : tr' = [tr EXCEPT ![1] = o.t]
    BY <1>2 DEF ProcessBatch, RunCycle
  <2>3. CASE UNCHANGED tr
    BY <1>0, <2>1, <2>3, SafeKept
  <2>4. CASE \E o \in SendAnswers(tr[1]) : tr' = [tr EXCEPT ![1] = o.t]
    BY <1>0, <2>1, <2>4, SendServes, SafeServed
  <2> QED BY <2>2, <2>3, <2>4
<1>3. CASE FinishBatch
  <2>1. cur' = cur /\ ctl' = ctl
    BY <1>3 DEF FinishBatch
  <2>2. PICK t \in StepQueue(tr[cur]) : tr' = [tr EXCEPT ![cur] = t]
    BY <1>3 DEF FinishBatch
  <2> QED BY <1>0, <2>1, <2>2, StepQueueServes, SafeServed
<1> QED BY <1>1, <1>2, <1>3 DEF TransportWorker

LEMMA SafeStep == BenchInv /\ SafeInv /\ [Next]_vars => SafeInv' /\ DispatchStep
<1> SUFFICES ASSUME BenchInv, SafeInv, [Next]_vars PROVE SafeInv' /\ DispatchStep
  OBVIOUS
<1>1. CASE (\E button \in Buttons : Click(button)) \/ UNCHANGED vars
  <2>1. UNCHANGED trVars /\ ctl' = ctl /\ TransportOK
    BY <1>1 DEF Click, vars, BenchInv
  <2> QED BY <2>1, SafeKept
<1> QED BY <1>1, CycleSlotSafe, ActionSlotSafe, WorkersSafe DEF Next

LEMMA SafeInitially == Init => SafeInv
<1> SUFFICES ASSUME Init PROVE SafeInv
  OBVIOUS
<1>1. ctl # "SAFE" /\ \A i \in 1..2 : tr[i] = NewTransport(selected)
  BY DEF Init
<1>2. NewTransport(selected).mode = "AUTO"
  BY DEF NewTransport
<1> QED BY <1>1, <1>2 DEF SafeInv, Refuses

\* A controller in SAFE gives its mock no job, neither by hand nor from a
\* batch under way, unless the mock was connected since: on_fire_test_clicked
\* and the transport worker send without a look at the state of the controller.
THEOREM NothingDispatchedInSafe == Spec => NoDispatchInSafe
<1>1. BenchInv /\ SafeInv /\ [Next]_vars
        => [ctl = "SAFE" /\ ctl' = "SAFE" /\ tr[cur].kind = "mock" /\ tr[cur].mode # "AUTO" =>
              tr'[cur].depth <= tr[cur].depth]_vars
  BY SafeStep DEF DispatchStep
<1>2. BenchInv /\ SafeInv /\ [Next]_vars => SafeInv'
  BY SafeStep
<1> QED BY <1>1, <1>2, SafeInitially, BenchInvariant, PTL DEF Spec, NoDispatchInSafe
=============================================================================
