---------------------------- MODULE LineProtocol ----------------------------
(***************************************************************************)
(* SerialProtocol (firmware/serial_protocol.cpp): the receiver's calls of  *)
(* ingest_byte(s) fill the ring (module ByteRing) that process() empties,  *)
(* putting lines together and dispatching them.  A full ring enters SAFE   *)
(* and loses bytes, so the tail of one line can meet the next line.        *)
(*                                                                         *)
(* A byte stands for a piece of text that is handled alike: "SCHED" is     *)
(* everything up to the position, the digits follow one by one, "NL" ends  *)
(* a line and "CR" is ignored.  The scheduler and the safety latch are     *)
(* reached through callbacks and modelled from how they are used.          *)
(***************************************************************************)
EXTENDS ByteRing, SequencesExt

CONSTANTS
  Digits,          (* the digit bytes                                       *)
  MaxLine,         (* kLineBufferSize - 1, in bytes of this model           *)
  MaxPosition,     (* longest digit string parse_nonnegative_int accepts    *)
  Lines,           (* the lines the peer sends, without their NL            *)
  JobCapacity,     (* jobs the scheduler callback takes before it refuses   *)
  MaxLines         (* bound: lines sent                                     *)

\* A line has no NL but the one that ends it.
ASSUME LineAssumption ==
  /\ Lines \subseteq Seq(Bytes \ {"NL"}) /\ "NL" \in Bytes
  /\ MaxLine \in Nat /\ JobCapacity \in Nat

VARIABLES
  line, dropping,             \* line_buffer_ and dropping_long_line_
  safe, queued,               \* external: the latch, jobs in the scheduler
  sending, sent,              \* external: rest of the line under way; lines sent
  dispatched, accepted,       \* history: lines dispatched, positions enqueued
  lost, cleared               \* history: a byte was lost; CLEAR_SAFE ran since

lineVars    == <<line, dropping>>
outsideVars == <<safe, queued>>
peerVars    == <<sending, sent>>
traceVars   == <<dispatched, accepted, lost, cleared>>
protocolVars == <<ringVars, lineVars, outsideVars, peerVars, traceVars>>

TooLong == <<"TOO_LONG">>

ProtocolInit ==
  /\ RingInit
  /\ line = <<>> /\ dropping = FALSE
  /\ safe = FALSE /\ queued = 0
  /\ sending = <<>> /\ sent = <<>>
  /\ dispatched = <<>> /\ accepted = <<>>
  /\ lost = FALSE /\ cleared = FALSE

-----------------------------------------------------------------------------
\* Mutants: one character past the buffer; the fault callback is not called.
LineFullLate == Len(line) > MaxLine
EnterSafeSkipped == UNCHANGED safe

LineFull == Len(line) >= MaxLine

\* safety_.enter_safe.
EnterSafe == safe' = TRUE

\* The peer begins its next line.
BeginLine(text) ==
  /\ sending = <<>> /\ Len(sent) < MaxLines
  /\ sending' = Append(text, "NL")
  /\ sent' = Append(sent, text)
  /\ UNCHANGED <<ringVars, lineVars, outsideVars, traceVars>>

\* ingest_byte with room in the ring.
IngestByte ==
  /\ sending # <<>>
  /\ Store(Head(sending))
  /\ sending' = Tail(sending)
  /\ UNCHANGED <<lineVars, outsideVars, sent, traceVars>>

\* ingest_bytes on a full ring: SAFE, and the rest of the chunk, which ends
\* anywhere in the line, is not taken.
IngestOverflow ==
  /\ sending # <<>> /\ RingFull
  /\ \E chunk \in 1..Len(sending) : sending' = SubSeq(sending, chunk + 1, Len(sending))
  /\ EnterSafe
  /\ lost' = TRUE /\ cleared' = FALSE
  /\ UNCHANGED <<ringVars, lineVars, queued, sent, dispatched, accepted>>

-----------------------------------------------------------------------------
\* dispatch_line.  Queries, MODE and PARAM only answer; so does every line
\* that is not recognised.
IsSched(text)  == Len(text) >= 2 /\ text[1] = "SCHED" /\ \A i \in 2..Len(text) : text[i] \in Digits
Position(text) == Tail(text)
Schedulable(text) == IsSched(text) /\ Len(Position(text)) <= MaxPosition

DispatchClear(text) ==
  /\ text = <<"CLEAR_SAFE">>
  /\ safe' = FALSE /\ cleared' = TRUE
  /\ UNCHANGED <<queued, accepted>>

DispatchSched(text) ==
  /\ Schedulable(text)
  /\ \/ /\ safe
        /\ UNCHANGED <<safe, queued, accepted>>
     \/ /\ ~safe /\ queued < JobCapacity
        /\ queued' = queued + 1
        /\ accepted' = Append(accepted, Position(text))
        /\ UNCHANGED safe
     \/ /\ ~safe /\ queued >= JobCapacity
        /\ EnterSafe
        /\ UNCHANGED <<queued, accepted>>
  /\ UNCHANGED cleared

DispatchOther(text) ==
  /\ text # <<"CLEAR_SAFE">> /\ ~Schedulable(text)
  /\ UNCHANGED <<safe, queued, accepted, cleared>>

DispatchLine(text) ==
  /\ DispatchClear(text) \/ DispatchSched(text) \/ DispatchOther(text)
  /\ dispatched' = Append(dispatched, text)
  /\ UNCHANGED lost

NoDispatch == UNCHANGED <<outsideVars, traceVars>>

\* One turn of process(): a byte leaves the ring and extends, ends or drops
\* the line.  Bytes may arrive between two turns.
ProcessDropped ==
  /\ dropping
  /\ \/ /\ Oldest = "NL"
        /\ dropping' = FALSE /\ line' = <<>>
        /\ dispatched' = Append(dispatched, TooLong)
        /\ UNCHANGED <<outsideVars, accepted, lost, cleared>>
     \/ /\ Oldest # "NL"
        /\ UNCHANGED lineVars /\ NoDispatch

ProcessByte ==
  /\ ~dropping
  /\ \/ /\ Oldest = "CR"
        /\ UNCHANGED lineVars /\ NoDispatch
     \/ /\ Oldest = "NL"
        /\ DispatchLine(line)
        /\ line' = <<>> /\ UNCHANGED dropping
     \/ /\ Oldest \notin {"CR", "NL"}
        /\ IF LineFull
           THEN line' = <<>> /\ dropping' = TRUE
           ELSE line' = Append(line, Oldest) /\ UNCHANGED dropping
        /\ NoDispatch

Process ==
  /\ Fetch
  /\ ProcessDropped \/ ProcessByte
  /\ UNCHANGED peerVars

ProtocolNext ==
  \/ \E text \in Lines : BeginLine(text)
  \/ IngestByte
  \/ IngestOverflow
  \/ Process

ProtocolSpec == ProtocolInit /\ [][ProtocolNext]_protocolVars

-----------------------------------------------------------------------------
\* The ring's variables have their types and the line fits its buffer.
ProtocolTypeOK ==
  /\ RingTypeOK
  /\ Len(line) <= MaxLine
  /\ queued \in 0..JobCapacity

\* The first n bytes of a line, without the CRs.
BareUpTo(text) ==
  LET bare[n \in 0..Len(text)] ==
        IF n = 0 THEN <<>>
        ELSE IF text[n] = "CR" THEN bare[n - 1] ELSE Append(bare[n - 1], text[n])
  IN bare

\* What process() should make of a line that arrives whole.
Received(text) ==
  LET bare == BareUpTo(text)[Len(text)]
  IN IF Len(bare) > MaxLine THEN TooLong ELSE bare

\* Neither buffer outgrows its array, and while no byte is lost, lines are
\* dispatched exactly as they were sent, in order, however arrivals and
\* process() interleave and however long the lines are.
FramingIsExact ==
  /\ ProtocolTypeOK
  /\ ~lost => /\ Len(dispatched) <= Len(sent)
              /\ \A i \in 1..Len(dispatched) : dispatched[i] = Received(sent[i])

SentPositions == {Position(text) : text \in {t \in {Received(l) : l \in Lines} : IsSched(t)}}

\* Overflow can join the head of one line to the tail of another.  The latch
\* the overflow sets stops what comes of it: a position nobody sent is
\* enqueued only after a CLEAR_SAFE that was dispatched since the loss.
SafeCatchesDamage ==
  [][accepted' # accepted /\ Last(accepted') \notin SentPositions
       => lost /\ cleared]_protocolVars
=============================================================================
