------------------------------ MODULE ByteRing ------------------------------
(***************************************************************************)
(* The receive ring of SerialProtocol (firmware/serial_protocol.cpp):      *)
(* ring_buffer_, ring_head_, ring_tail_ and ring_count_.  The count tells  *)
(* a full ring from an empty one; head and tail alone do not.              *)
(***************************************************************************)
EXTENDS Integers, Sequences

CONSTANTS Bytes,      (* the bytes, or groups of bytes, that are told apart *)
          NoByte,     (* what a cell holds before its first byte            *)
          RingSize    (* kSerialRingBufferSize                              *)

ASSUME RingAssumption == RingSize \in Nat \ {0} /\ NoByte \notin Bytes

VARIABLES ring, head, tail, count

ringVars == <<ring, head, tail, count>>

\* The constructor: the cells hold zeros, which nothing may read.
RingInit == /\ ring = [i \in 0..(RingSize - 1) |-> NoByte]
            /\ head = 0 /\ tail = 0 /\ count = 0

\* Mutants: the capacity check is off by one; the cursor skips the last cell.
RingFullLate == count > RingSize
AdvanceShort(cursor) == (cursor + 1) % (IF RingSize > 1 THEN RingSize - 1 ELSE 1)

RingFull == count >= RingSize

Advance(cursor) == (cursor + 1) % RingSize

\* ingest_byte, below capacity.
Store(b) == /\ ~RingFull
            /\ ring' = [ring EXCEPT ![head] = b]
            /\ head' = Advance(head)
            /\ count' = count + 1
            /\ UNCHANGED tail

\* pop_byte: the byte returned is Oldest.
Oldest == ring[tail]

Fetch == /\ count # 0
         /\ tail' = Advance(tail)
         /\ count' = count - 1
         /\ UNCHANGED <<ring, head>>

RingNext == (\E b \in Bytes : Store(b)) \/ Fetch

RingSpec == RingInit /\ [][RingNext]_ringVars

-----------------------------------------------------------------------------
\* Cursors inside the array, and count cells between them.
RingTypeOK ==
  /\ ring \in [0..(RingSize - 1) -> Bytes \cup {NoByte}]
  /\ head \in 0..(RingSize - 1) /\ tail \in 0..(RingSize - 1)
  /\ count \in 0..RingSize

\* The redundant count never drifts from the cursors, and only stored bytes
\* lie between them.
RingCoherent ==
  /\ head = (tail + count) % RingSize
  /\ \A i \in 0..(count - 1) : ring[(tail + i) % RingSize] \in Bytes

\* The bytes between the cursors, oldest first.
Content == [i \in 1..count |-> ring[(tail + (i - 1)) % RingSize]]

\* The ring is a bounded FIFO of its content.
Fifo == INSTANCE BoundedFifo WITH channel <- Content, Values <- Bytes, Capacity <- RingSize
ImplementsFifo == Fifo!FifoSpec
=============================================================================
