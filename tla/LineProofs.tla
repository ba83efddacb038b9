----------------------------- MODULE LineProofs -----------------------------
(***************************************************************************)
(* Proofs about the receive ring (module ByteRing), for every ring size    *)
(* and every set of bytes: the cursors and the count stay coherent, and    *)
(* the ring implements a bounded FIFO; and about SerialProtocol around it  *)
(* (module LineProtocol): whatever the peer sends, and however its bytes   *)
(* and process() interleave, the ring inside keeps those promises.         *)
(***************************************************************************)
EXTENDS LineProtocol, SequenceTheorems, WellFoundedInduction, TLAPS

-----------------------------------------------------------------------------
(* The ring on its own.                                                    *)

\* A cursor moved by at most one turn wraps by subtraction.
LEMMA WrapOnce ==
  ASSUME NEW n \in Nat \ {0}, NEW x \in 0..(2 * n - 1)
  PROVE  x % n = IF x < n THEN x ELSE x - n
<1>1. CASE x < n  BY <1>1
<1>2. CASE x >= n
  <2>1. x - n \in 0..(n - 1)  BY <1>2
  <2>2. x = n * 1 + (x - n)  OBVIOUS
  <2> QED  BY <2>1, <2>2, <1>2
<1> QED  BY <1>1, <1>2

\* The cell i places after cell t, of n.
LEMMA CellAfter ==
  ASSUME NEW n \in Nat \ {0}, NEW t \in 0..(n - 1), NEW i \in 0..n
  PROVE  /\ (t + i) % n \in 0..(n - 1)
         /\ (t + i) % n = IF t + i < n THEN t + i ELSE t + i - n
<1> DEFINE x == t + i
<1>1. x \in 0..(2 * n - 1) /\ x = t + i  OBVIOUS
<1>2. x % n = IF x < n THEN x ELSE x - n
  <2> HIDE DEF x
  <2> QED  BY <1>1, WrapOnce
<1> QED  BY <1>1, <1>2

\* Fewer than n places after t, no cell comes twice.
LEMMA CellsDiffer ==
  ASSUME NEW n \in Nat \ {0}, NEW t \in 0..(n - 1),
         NEW i \in 0..(n - 1), NEW j \in 0..(n - 1), i # j
  PROVE  (t + i) % n # (t + j) % n
<1>1. i \in 0..n /\ j \in 0..n  OBVIOUS
<1>2. (t + i) % n = IF t + i < n THEN t + i ELSE t + i - n  BY <1>1, CellAfter
<1>3. (t + j) % n = IF t + j < n THEN t + j ELSE t + j - n  BY <1>1, CellAfter
<1> QED  BY <1>2, <1>3

\* Going one place on and then i is going i + 1, and i and then one as well.
LEMMA CellNext ==
  ASSUME NEW n \in Nat \ {0}, NEW t \in 0..(n - 1), NEW i \in 0..(n - 1)
  PROVE  /\ (((t + 1) % n) + i) % n = (t + (i + 1)) % n
         /\ (((t + i) % n) + 1) % n = (t + (i + 1)) % n
<1> DEFINE u == (t + 1) % n
           v == (t + i) % n
<1>1. u \in 0..(n - 1) /\ u = IF t + 1 < n THEN t + 1 ELSE t + 1 - n
  <2>1. 1 \in 0..n  OBVIOUS
  <2> QED  BY <2>1, CellAfter
<1>2. v \in 0..(n - 1) /\ v = IF t + i < n THEN t + i ELSE t + i - n
  <2>1. i \in 0..n  OBVIOUS
  <2> QED  BY <2>1, CellAfter
<1>3. (t + (i + 1)) % n = IF t + (i + 1) < n THEN t + (i + 1) ELSE t + (i + 1) - n
  <2>1. i + 1 \in 0..n  OBVIOUS
  <2> QED  BY <2>1, CellAfter
<1>4. (u + i) % n = IF u + i < n THEN u + i ELSE u + i - n
  <2>1. i \in 0..n  OBVIOUS
  <2> HIDE DEF u
  <2> QED  BY <1>1, <2>1, CellAfter
<1>5. (v + 1) % n = IF v + 1 < n THEN v + 1 ELSE v + 1 - n
  <2>1. 1 \in 0..n  OBVIOUS
  <2> HIDE DEF v
  <2> QED  BY <1>2, <2>1, CellAfter
<1>6. (u + i) % n = (t + (i + 1)) % n
  <2> HIDE DEF u
  <2> QED  BY <1>1, <1>3, <1>4
<1>7. (v + 1) % n = (t + (i + 1)) % n
  <2> HIDE DEF v
  <2> QED  BY <1>2, <1>3, <1>5
<1> QED  BY <1>6, <1>7

-----------------------------------------------------------------------------
\* The inductive invariant: cursors in range, count between them, and only
\* stored bytes there.
RingInv == RingTypeOK /\ RingCoherent

\* The empty ring satisfies it.
LEMMA RingInitInv == RingInit => RingInv
BY RingAssumption, CellAfter DEF RingInit, RingInv, RingTypeOK, RingCoherent

\* ingest_byte below capacity keeps the cursors and the count together, and
\* leaves every stored byte in its place.
LEMMA StoreStep ==
  ASSUME RingInv, NEW b \in Bytes, Store(b)
  PROVE  /\ RingInv'
         /\ \A i \in 0..(count - 1) : ring'[(tail + i) % RingSize] = ring[(tail + i) % RingSize]
         /\ ring'[(tail + count) % RingSize] = b
<1> USE DEF RingInv
<1>1. count \in 0..(RingSize - 1) /\ head = (tail + count) % RingSize
  BY RingAssumption DEF Store, RingFull, RingTypeOK, RingCoherent
<1>2. ring'[head] = b
  BY DEF Store, RingTypeOK
<1>3. ASSUME NEW i \in 0..(count - 1)
      PROVE  ring'[(tail + i) % RingSize] = ring[(tail + i) % RingSize]
  <2>1. (tail + i) % RingSize # head /\ (tail + i) % RingSize \in 0..(RingSize - 1)
    <3>1. i \in 0..(RingSize - 1) /\ i \in 0..RingSize /\ i # count  BY <1>1, RingAssumption
    <3>2. tail \in 0..(RingSize - 1)  BY DEF RingTypeOK
    <3> QED  BY <1>1, <3>1, <3>2, CellsDiffer, CellAfter, RingAssumption
  <2> QED  BY <2>1 DEF Store, RingTypeOK
<1>4. head' \in 0..(RingSize - 1) /\ head' = (tail' + count') % RingSize
  <2>1. tail \in 0..(RingSize - 1)  BY DEF RingTypeOK
  <2>2. head' = (((tail + count) % RingSize) + 1) % RingSize  BY <1>1 DEF Store, Advance
  <2>3. head' = (tail + (count + 1)) % RingSize
    BY <1>1, <2>1, <2>2, CellNext, RingAssumption
  <2>4. count + 1 \in 0..RingSize  BY <1>1, RingAssumption
  <2>5. head' \in 0..(RingSize - 1)  BY <2>1, <2>3, <2>4, CellAfter, RingAssumption
  <2> QED  BY <2>3, <2>5 DEF Store
<1>5. RingTypeOK'
  BY <1>1, <1>4, RingAssumption DEF RingTypeOK, Store
<1>6. RingCoherent'
  <2>1. ASSUME NEW i \in 0..count
        PROVE  ring'[(tail + i) % RingSize] \in Bytes
    <3>1. CASE i = count  BY <1>1, <1>2, <3>1
    <3>2. CASE i \in 0..(count - 1)  BY <1>3, <3>2 DEF RingCoherent
    <3> QED  BY <1>1, <3>1, <3>2
  <2> QED  BY <2>1, <1>1, <1>4 DEF RingCoherent, Store
<1> QED  BY <1>1, <1>2, <1>3, <1>5, <1>6

\* pop_byte keeps the cursors and the count together: what was i + 1 cells
\* after the tail is now i cells after it.
LEMMA FetchStep ==
  ASSUME RingInv, Fetch
  PROVE  /\ RingInv'
         /\ \A i \in 0..(count - 1) : (tail' + i) % RingSize = (tail + (i + 1)) % RingSize
<1> USE DEF RingInv
<1>1. count \in 1..RingSize  BY RingAssumption DEF Fetch, RingTypeOK
<1>2. tail \in 0..(RingSize - 1) /\ tail' = (tail + 1) % RingSize
  BY DEF Fetch, Advance, RingTypeOK
<1>3. tail' \in 0..(RingSize - 1)
  <2>1. 1 \in 0..RingSize  BY RingAssumption
  <2> QED  BY <1>2, <2>1, CellAfter, RingAssumption
<1>4. RingTypeOK'
  BY <1>1, <1>3, RingAssumption DEF RingTypeOK, Fetch
<1>5. ASSUME NEW i \in 0..(count - 1)
      PROVE  (tail' + i) % RingSize = (tail + (i + 1)) % RingSize
  <2>1. i \in 0..(RingSize - 1)  BY <1>1, RingAssumption
  <2> QED  BY <1>2, <2>1, CellNext, RingAssumption
<1>6. RingCoherent'
  <2>1. count' = count - 1 /\ head' = head /\ ring' = ring  BY DEF Fetch
  <2>2. head = (tail' + count') % RingSize
    <3>1. count - 1 \in 0..(count - 1) /\ (count - 1) + 1 = count  BY <1>1
    <3> QED  BY <1>5, <2>1, <3>1 DEF RingCoherent
  <2>3. ASSUME NEW i \in 0..(count' - 1)
        PROVE  ring'[(tail' + i) % RingSize] \in Bytes
    <3>1. i \in 0..(count - 1) /\ i + 1 \in 0..(count - 1)  BY <1>1, <2>1
    <3> QED  BY <1>5, <2>1, <3>1 DEF RingCoherent
  <2> QED  BY <2>1, <2>2, <2>3 DEF RingCoherent
<1> QED  BY <1>4, <1>5, <1>6

\* Every step of the ring preserves the invariant.
LEMMA RingStep == RingInv /\ [RingNext]_ringVars => RingInv'
<1> SUFFICES ASSUME RingInv, [RingNext]_ringVars  PROVE RingInv'
  OBVIOUS
<1>1. CASE \E b \in Bytes : Store(b)  BY <1>1, StoreStep
<1>2. CASE Fetch  BY <1>2, FetchStep
<1>3. CASE UNCHANGED ringVars
  BY <1>3 DEF RingInv, RingTypeOK, RingCoherent, ringVars
<1> QED  BY <1>1, <1>2, <1>3 DEF RingNext

-----------------------------------------------------------------------------
\* At every moment the cursors are inside the array, the count is what lies
\* between them, and only stored bytes lie there: process() never reads a
\* cell the receiver has not written.
THEOREM RingStaysCoherent == RingSpec => [](RingTypeOK /\ RingCoherent)
<1>1. RingInv => RingTypeOK /\ RingCoherent  BY DEF RingInv
<1> QED  BY <1>1, RingInitInv, RingStep, PTL DEF RingSpec

\* The content is a sequence of count bytes.
LEMMA ContentType ==
  ASSUME RingInv
  PROVE  Content \in Seq(Bytes) /\ Len(Content) = count
<1>1. count \in Nat  BY RingAssumption DEF RingInv, RingTypeOK
<1>2. ASSUME NEW i \in 1..count
      PROVE  ring[(tail + (i - 1)) % RingSize] \in Bytes
  <2>1. i - 1 \in 0..(count - 1)  BY <1>1
  <2> QED  BY <2>1 DEF RingInv, RingCoherent
<1>3. Content \in [1..count -> Bytes]  BY <1>2 DEF Content
<1> QED  BY <1>1, <1>3

\* A byte stored comes to the end of the content.
LEMMA StoreAppends ==
  ASSUME RingInv, NEW b \in Bytes, Store(b)
  PROVE  Content' = Append(Content, b) /\ count' = count + 1 /\ count < RingSize
<1>1. count \in 0..(RingSize - 1) /\ count' = count + 1 /\ tail' = tail
  BY RingAssumption DEF Store, RingFull, RingInv, RingTypeOK
<1>2. Content \in Seq(Bytes) /\ Len(Content) = count
  BY ContentType
<1>3. Content' = Append(Content, b)
  BY <1>1, <1>2, StoreStep DEF Content
<1> QED  BY <1>1, <1>3, RingAssumption

\* The byte fetched was the first of the content.
LEMMA FetchTakesHead ==
  ASSUME RingInv, Fetch
  PROVE  Content # <<>> /\ Oldest = Head(Content) /\ Content' = Tail(Content)
<1>1. count \in 1..RingSize /\ count' = count - 1 /\ ring' = ring
  BY RingAssumption DEF Fetch, RingInv, RingTypeOK
<1>2. Content \in Seq(Bytes) /\ Len(Content) = count
  BY ContentType
<1>3. Content' = Tail(Content)
  BY <1>1, <1>2, FetchStep DEF Content
<1>4. tail \in 0..(RingSize - 1) /\ Content[1] = ring[(tail + (1 - 1)) % RingSize]
  BY <1>1 DEF RingInv, RingTypeOK, Content
<1>5. (tail + (1 - 1)) % RingSize = tail
  BY <1>4, RingAssumption
<1> QED  BY <1>1, <1>2, <1>3, <1>4, <1>5 DEF Oldest

\* The ring implements the bounded FIFO: no byte taken is lost, repeated or
\* overtaken, and the one that does not fit is refused.
THEOREM RingImplementsFifo == RingSpec => ImplementsFifo
<1>1. RingInit => Fifo!FifoInit
  BY DEF RingInit, Fifo!FifoInit, Content
<1>2. ASSUME RingInv, NEW b \in Bytes, Store(b)
      PROVE  Fifo!Put(b)
  BY <1>2, StoreAppends, ContentType DEF Fifo!Put
<1>3. ASSUME RingInv, Fetch
      PROVE  Fifo!Get
  BY <1>3, FetchTakesHead, ContentType DEF Fifo!Get
<1>4. RingInv /\ [RingNext]_ringVars => [Fifo!FifoNext]_Content
  <2>1. UNCHANGED ringVars => UNCHANGED Content  BY DEF ringVars, Content
  <2> QED  BY <1>2, <1>3, <2>1 DEF RingNext, Fifo!FifoNext
<1> QED  BY <1>1, <1>4, RingInitInv, RingStep, PTL DEF RingSpec, ImplementsFifo, Fifo!FifoSpec

-----------------------------------------------------------------------------
(* The line protocol around it.                                            *)

\* What is still to be sent is a sequence of bytes.
SendingOK == sending \in Seq(Bytes)

\* A line and its end are bytes, and so is every rest of them.
LEMMA SendingStep == SendingOK /\ [ProtocolNext]_protocolVars => SendingOK'
<1> SUFFICES ASSUME SendingOK, [ProtocolNext]_protocolVars  PROVE SendingOK'
  OBVIOUS
<1>1. ASSUME NEW text \in Lines, BeginLine(text)  PROVE SendingOK'
  <2>1. text \in Seq(Bytes \ {"NL"}) /\ "NL" \in Bytes  BY LineAssumption
  <2> QED  BY <1>1, <2>1 DEF BeginLine, SendingOK
<1>2. CASE IngestByte  BY <1>2 DEF IngestByte, SendingOK
<1>3. CASE IngestOverflow
  <2>1. PICK chunk \in 1..Len(sending) : sending' = SubSeq(sending, chunk + 1, Len(sending))
    BY <1>3 DEF IngestOverflow
  <2>2. chunk + 1 \in 1..(Len(sending) + 1)  BY <2>1
  <2> QED  BY <2>1, <2>2, SubSeqProperties DEF SendingOK
<1>4. CASE Process  BY <1>4 DEF Process, peerVars, SendingOK
<1>5. CASE UNCHANGED protocolVars  BY <1>5 DEF protocolVars, peerVars, SendingOK
<1> QED  BY <1>1, <1>2, <1>3, <1>4, <1>5 DEF ProtocolNext

\* Every step of the protocol is a step of the ring or leaves it alone.
LEMMA ProtocolStepsRing == SendingOK /\ [ProtocolNext]_protocolVars => [RingNext]_ringVars
<1> SUFFICES ASSUME SendingOK, [ProtocolNext]_protocolVars  PROVE [RingNext]_ringVars
  OBVIOUS
<1>1. ASSUME NEW text \in Lines, BeginLine(text)  PROVE UNCHANGED ringVars
  BY <1>1 DEF BeginLine
<1>2. CASE IngestByte
  <2>1. Head(sending) \in Bytes  BY <1>2 DEF IngestByte, SendingOK
  <2> QED  BY <1>2, <2>1 DEF IngestByte, RingNext
<1>3. CASE IngestOverflow  BY <1>3 DEF IngestOverflow
<1>4. CASE Process  BY <1>4 DEF Process, RingNext
<1>5. CASE UNCHANGED protocolVars  BY <1>5 DEF protocolVars
<1> QED  BY <1>1, <1>2, <1>3, <1>4, <1>5 DEF ProtocolNext

\* The behaviours of the protocol are behaviours of its ring.
LEMMA ProtocolHasRing == ProtocolSpec => RingSpec
<1>1. ProtocolInit => RingInit /\ SendingOK
  BY DEF ProtocolInit, SendingOK
<1> QED  BY <1>1, SendingStep, ProtocolStepsRing, PTL DEF ProtocolSpec, RingSpec

\* In every state of the protocol the cursors and the count agree and
\* process() reads only bytes the receiver stored.
THEOREM ProtocolRingCoherent == ProtocolSpec => []RingCoherent
BY ProtocolHasRing, RingStaysCoherent, PTL

\* Between ingest_byte and process() no byte taken is lost, repeated or
\* overtaken.
THEOREM ProtocolImplementsFifo == ProtocolSpec => ImplementsFifo
BY ProtocolHasRing, RingImplementsFifo, PTL

-----------------------------------------------------------------------------
(* A line without its CRs.                                                 *)

\* The natural numbers are well ordered: induction by least counterexample.
LEMMA LeastOf ==
  ASSUME NEW T \in SUBSET Nat, T # {}
  PROVE  \E x \in T : \A y \in T : x <= y
<1>1. \E R : IsWellFoundedOn(R, Nat) /\ \A x, y \in Nat : y < x => <<y, x>> \in R
  <2> DEFINE R == OpToRel(<, Nat)
  <2>1. IsWellFoundedOn(R, Nat)  BY NatLessThanWellFounded
  <2>2. \A x, y \in Nat : y < x => <<y, x>> \in R  BY DEF OpToRel
  <2> QED  BY <2>1, <2>2, Zenon
<1>2. PICK R : IsWellFoundedOn(R, Nat) /\ \A x, y \in Nat : y < x => <<y, x>> \in R
  BY <1>1, Zenon
<1>3. PICK x \in T : \A y \in T : ~ (<<y, x>> \in R)  BY <1>2, WFMin, Zenon
<1>4. ASSUME NEW y \in T  PROVE x <= y
  <2>1. ~(y < x)  BY <1>2, <1>3, Zenon
  <2> QED  BY <2>1
<1> QED  BY <1>4, Zenon

BareNext(text, k, before) == IF text[k] = "CR" THEN before ELSE Append(before, text[k])

IsBare(f, text, n) ==
  f = [k \in 0..n |-> IF k = 0 THEN <<>> ELSE BareNext(text, k, f[k - 1])]

\* The recursive function of the model exists, whatever the length.
LEMMA BareExists ==
  ASSUME NEW text, NEW n \in Nat
  PROVE  \E f : IsBare(f, text, n)
<1> DEFINE Bad == {j \in Nat : ~\E f : IsBare(f, text, j)}
<1> SUFFICES ASSUME Bad # {}  PROVE FALSE
  OBVIOUS
<1>1. PICK j \in Bad : \A l \in Bad : j <= l
  <2>1. Bad \in SUBSET Nat  OBVIOUS
  <2> HIDE DEF Bad
  <2> QED  BY <2>1, LeastOf
<1>2. CASE j = 0
  <2> DEFINE f == [k \in 0..0 |-> <<>>]
  <2>1. IsBare(f, text, 0)  BY DEF IsBare
  <2> QED  BY <2>1, <1>2
<1>3. CASE j # 0
  <2>1. j \in Nat /\ j - 1 \in Nat  BY <1>3
  <2>2. j - 1 \notin Bad
    <3> HIDE DEF Bad
    <3> QED  BY <1>1, <2>1
  <2>3. PICK f : IsBare(f, text, j - 1)  BY <2>1, <2>2
  <2> DEFINE g == [k \in 0..j |-> IF k = j THEN BareNext(text, j, f[j - 1]) ELSE f[k]]
  <2>4. ASSUME NEW k \in 0..j
        PROVE  g[k] = IF k = 0 THEN <<>> ELSE BareNext(text, k, g[k - 1])
    <3>1. CASE k = j  BY <3>1, <1>3, <2>1
    <3>2. CASE k # j
      <4>1. k \in 0..(j - 1) /\ (k # 0 => k - 1 \in 0..(j - 1))  BY <3>2, <2>1
      <4>2. f[k] = IF k = 0 THEN <<>> ELSE BareNext(text, k, f[k - 1])
        BY <4>1, <2>3 DEF IsBare
      <4> QED  BY <4>1, <4>2, <3>2, <2>1
    <3> QED  BY <3>1, <3>2
  <2>5. IsBare(g, text, j)  BY <2>4 DEF IsBare
  <2> QED  BY <2>1, <2>5
<1> QED  BY <1>2, <1>3

\* What it computes, one byte at a time.
LEMMA BareFacts ==
  ASSUME NEW text, Len(text) \in Nat
  PROVE  /\ BareUpTo(text)[0] = <<>>
         /\ \A k \in 1..Len(text) :
              BareUpTo(text)[k] = BareNext(text, k, BareUpTo(text)[k - 1])
<1> DEFINE n == Len(text)
           f[k \in 0..n] == IF k = 0 THEN <<>>
                            ELSE IF text[k] = "CR" THEN f[k - 1] ELSE Append(f[k - 1], text[k])
<1>1. \E g : g = [k \in 0..n |-> IF k = 0 THEN <<>>
                                 ELSE IF text[k] = "CR" THEN g[k - 1]
                                 ELSE Append(g[k - 1], text[k])]
  <2> n \in Nat  OBVIOUS
  <2> HIDE DEF n
  <2>1. PICK g : IsBare(g, text, n)  BY BareExists
  <2>2. g = [k \in 0..n |-> IF k = 0 THEN <<>>
                            ELSE IF text[k] = "CR" THEN g[k - 1]
                            ELSE Append(g[k - 1], text[k])]
    BY <2>1 DEF IsBare, BareNext
  <2> QED  BY <2>2
<1>2. f = [k \in 0..n |-> IF k = 0 THEN <<>>
                          ELSE IF text[k] = "CR" THEN f[k - 1] ELSE Append(f[k - 1], text[k])]
  BY <1>1
<1>3. BareUpTo(text) = f  BY DEF BareUpTo
<1>4. f[0] = <<>> /\ \A k \in 1..n : f[k] = BareNext(text, k, f[k - 1])
  <2> n \in Nat  OBVIOUS
  <2> HIDE DEF f, n
  <2>1. f[0] = <<>>  BY <1>2
  <2>2. ASSUME NEW k \in 1..n  PROVE f[k] = BareNext(text, k, f[k - 1])
    <3>1. k \in 0..n /\ k # 0  OBVIOUS
    <3>2. f[k] = IF k = 0 THEN <<>>
                 ELSE IF text[k] = "CR" THEN f[k - 1] ELSE Append(f[k - 1], text[k])
      BY <1>2, <3>1
    <3> QED  BY <3>1, <3>2 DEF BareNext
  <2> QED  BY <2>1, <2>2
<1> HIDE DEF f
<1> QED  BY <1>3, <1>4

-----------------------------------------------------------------------------
(* The stream of bytes between the peer and process().                     *)

\* The stream s is what is left of the lines after the first d, of which the
\* next has already gone as far as its byte p: e[j] is the place of the NL of
\* line j in it.
Cut(s, d, texts, e, p) ==
  /\ p \in Nat /\ e \in [d..Len(texts) -> Int]
  /\ e[d] = -p /\ e[Len(texts)] = Len(s)
  /\ \A j \in (d + 1)..Len(texts) :
       /\ e[j] = e[j - 1] + Len(texts[j]) + 1
       /\ e[j] \in 1..Len(s) /\ s[e[j]] = "NL"
       /\ \A i \in 1..Len(texts[j]) : e[j - 1] + i >= 1 => s[e[j - 1] + i] = texts[j][i]

LEMMA LineType ==
  ASSUME NEW texts \in Seq(Lines), NEW j \in 1..Len(texts)
  PROVE  /\ texts[j] \in Seq(Bytes \ {"NL"}) /\ Len(texts[j]) \in Nat
         /\ \A i \in 1..Len(texts[j]) : texts[j][i] # "NL"
BY LineAssumption

\* One more line is sent.
LEMMA CutBegins ==
  ASSUME NEW s \in Seq(Bytes), NEW d \in Nat, NEW texts \in Seq(Lines), d <= Len(texts),
         NEW e, NEW p, Cut(s, d, texts, e, p), NEW text \in Lines
  PROVE  \E f : Cut(s \o Append(text, "NL"), d, Append(texts, text), f, p)
<1> DEFINE n == Len(texts)
           t == s \o Append(text, "NL")
           more == Append(texts, text)
           f == [j \in d..(n + 1) |-> IF j = n + 1 THEN e[n] + Len(text) + 1 ELSE e[j]]
<1>1. /\ text \in Seq(Bytes \ {"NL"}) /\ Len(text) \in Nat /\ n \in Nat /\ Len(s) \in Nat
      /\ text \in Seq(Bytes)
  BY LineAssumption
<1>2. /\ Append(text, "NL") \in Seq(Bytes) /\ Len(Append(text, "NL")) = Len(text) + 1
      /\ Append(text, "NL")[Len(text) + 1] = "NL"
      /\ \A i \in 1..Len(text) : Append(text, "NL")[i] = text[i]
  BY <1>1, LineAssumption
<1>3. /\ Len(t) = Len(s) + Len(text) + 1
      /\ \A i \in 1..Len(s) : t[i] = s[i]
      /\ \A i \in 1..(Len(text) + 1) : t[Len(s) + i] = Append(text, "NL")[i]
  BY <1>1, <1>2
<1>4. /\ Len(more) = n + 1 /\ more[n + 1] = text
      /\ \A j \in 1..n : more[j] = texts[j]
  OBVIOUS
<1> HIDE DEF t, more
<1>5. /\ p \in Nat /\ e \in [d..n -> Int] /\ e[d] = -p /\ e[n] = Len(s)
      /\ \A j \in (d + 1)..n :
           /\ e[j] = e[j - 1] + Len(texts[j]) + 1
           /\ e[j] \in 1..Len(s) /\ s[e[j]] = "NL"
           /\ \A i \in 1..Len(texts[j]) : e[j - 1] + i >= 1 => s[e[j - 1] + i] = texts[j][i]
  BY DEF Cut
<1> HIDE DEF n
<1>6. /\ f \in [d..(n + 1) -> Int] /\ f[n + 1] = Len(t) /\ f[d] = -p
      /\ \A j \in d..n : f[j] = e[j]
  <2>1. n \in d..n /\ d \in d..n /\ e[n] + Len(text) + 1 = Len(t)
    BY <1>1, <1>3, <1>5 DEF n
  <2> QED  BY <1>1, <1>5, <2>1
<1> HIDE DEF f
<1>7. ASSUME NEW j \in (d + 1)..(n + 1)
      PROVE  /\ f[j] = f[j - 1] + Len(more[j]) + 1
             /\ f[j] \in 1..Len(t) /\ t[f[j]] = "NL"
             /\ \A i \in 1..Len(more[j]) : f[j - 1] + i >= 1 => t[f[j - 1] + i] = more[j][i]
  <2>1. CASE j = n + 1
    <3>1. f[j - 1] = Len(s) /\ f[j] = Len(s) + Len(text) + 1 /\ more[j] = text
      <4>1. j - 1 = n /\ n \in d..n  BY <2>1, <1>1 DEF n
      <4> QED  BY <2>1, <4>1, <1>1, <1>3, <1>4, <1>5, <1>6
    <3>2. t[f[j]] = "NL"
      <4>1. Len(text) + 1 \in 1..(Len(text) + 1) /\ f[j] = Len(s) + (Len(text) + 1)  BY <1>1, <3>1
      <4> QED  BY <1>2, <1>3, <4>1
    <3>3. ASSUME NEW i \in 1..Len(text)  PROVE t[Len(s) + i] = text[i]
      <4>1. i \in 1..(Len(text) + 1)  BY <1>1
      <4> QED  BY <1>2, <1>3, <4>1
    <3> QED  BY <1>1, <1>3, <3>1, <3>2, <3>3
  <2>2. CASE j # n + 1
    <3>1. j \in (d + 1)..n /\ j \in d..n /\ j - 1 \in d..n /\ j \in 1..n  BY <1>1, <2>2
    <3>2. f[j] = e[j] /\ f[j - 1] = e[j - 1] /\ more[j] = texts[j]  BY <1>4, <1>6, <3>1
    <3>3. f[j] \in 1..Len(s) /\ f[j] \in 1..Len(t)  BY <1>1, <1>3, <1>5, <3>1, <3>2
    <3>4. Len(texts[j]) \in Nat /\ e[j - 1] \in Int
      BY <1>5, <3>1, LineType DEF n
    <3>5. ASSUME NEW i \in 1..Len(texts[j]), e[j - 1] + i >= 1
          PROVE  t[e[j - 1] + i] = texts[j][i]
      <4>1. e[j] = e[j - 1] + Len(texts[j]) + 1 /\ e[j] \in 1..Len(s)  BY <1>5, <3>1
      <4>2. e[j - 1] + i \in 1..Len(s)  BY <1>1, <3>4, <3>5, <4>1
      <4>3. s[e[j - 1] + i] = texts[j][i]  BY <1>5, <3>1, <3>5
      <4> QED  BY <1>3, <4>2, <4>3
    <3> QED  BY <1>3, <1>5, <3>1, <3>2, <3>3, <3>5
  <2> QED  BY <2>1, <2>2
<1>8. Cut(t, d, more, f, p)
  BY <1>4, <1>5, <1>6, <1>7 DEF Cut
<1> QED  BY <1>8 DEF t, more

\* process() takes a byte of the line under way, or the NL behind it.
LEMMA CutTakes ==
  ASSUME NEW s \in Seq(Bytes), s # <<>>, NEW d \in Nat, NEW texts \in Seq(Lines),
         d <= Len(texts), NEW e, NEW p, Cut(s, d, texts, e, p)
  PROVE  /\ d < Len(texts)
         /\ Head(s) = "NL" =>
              /\ p = Len(texts[d + 1])
              /\ \E f : Cut(Tail(s), d + 1, texts, f, 0)
         /\ Head(s) # "NL" =>
              /\ p < Len(texts[d + 1]) /\ texts[d + 1][p + 1] = Head(s)
              /\ \E f : Cut(Tail(s), d, texts, f, p + 1)
<1> DEFINE n == Len(texts)
           t == Tail(s)
<1>1. /\ n \in Nat /\ Len(s) \in Nat /\ Len(s) >= 1 /\ Len(t) = Len(s) - 1
      /\ Head(s) = s[1] /\ \A i \in 2..Len(s) : t[i - 1] = s[i]
  OBVIOUS
<1>2. /\ p \in Nat /\ e \in [d..n -> Int] /\ e[d] = -p /\ e[n] = Len(s)
      /\ \A j \in (d + 1)..n :
           /\ e[j] = e[j - 1] + Len(texts[j]) + 1
           /\ e[j] \in 1..Len(s) /\ s[e[j]] = "NL"
           /\ \A i \in 1..Len(texts[j]) : e[j - 1] + i >= 1 => s[e[j - 1] + i] = texts[j][i]
  BY DEF Cut
<1>3. d < n
  BY <1>1, <1>2
<1>4. \A j \in (d + 1)..n : /\ Len(texts[j]) \in Nat
                           /\ \A i \in 1..Len(texts[j]) : texts[j][i] # "NL"
  BY LineType
<1> HIDE DEF n, t
<1>5. /\ e[d + 1] = -p + Len(texts[d + 1]) + 1 /\ e[d + 1] \in 1..Len(s) /\ s[e[d + 1]] = "NL"
      /\ \A i \in 1..Len(texts[d + 1]) : -p + i >= 1 => s[-p + i] = texts[d + 1][i]
      /\ Len(texts[d + 1]) \in Nat /\ d + 1 \in (d + 1)..n
      /\ \A i \in 1..Len(texts[d + 1]) : texts[d + 1][i] # "NL"
  <2> DEFINE k == d + 1
  <2>1. k \in (d + 1)..n /\ k - 1 = d  BY <1>1, <1>3
  <2> HIDE DEF k
  <2>2. /\ e[k] = e[k - 1] + Len(texts[k]) + 1 /\ e[k] \in 1..Len(s) /\ s[e[k]] = "NL"
        /\ \A i \in 1..Len(texts[k]) : e[k - 1] + i >= 1 => s[e[k - 1] + i] = texts[k][i]
    BY <1>2, <2>1
  <2>3. e[k - 1] = -p  BY <1>2, <2>1
  <2>4. /\ Len(texts[k]) \in Nat /\ k \in (d + 1)..n
        /\ \A i \in 1..Len(texts[k]) : texts[k][i] # "NL"
    BY <1>4, <2>1
  <2>5. /\ e[k] = -p + Len(texts[k]) + 1 /\ e[k] \in 1..Len(s) /\ s[e[k]] = "NL"
        /\ \A i \in 1..Len(texts[k]) : -p + i >= 1 => s[-p + i] = texts[k][i]
    BY <2>2, <2>3
  <2> QED  BY <2>4, <2>5 DEF k
<1>6. p <= Len(texts[d + 1])
  BY <1>1, <1>2, <1>5
<1>7. p < Len(texts[d + 1]) => texts[d + 1][p + 1] = Head(s) /\ Head(s) # "NL"
  <2> SUFFICES ASSUME p < Len(texts[d + 1])  PROVE texts[d + 1][p + 1] = Head(s) /\ Head(s) # "NL"
    OBVIOUS
  <2>1. p + 1 \in 1..Len(texts[d + 1]) /\ -p + (p + 1) = 1  BY <1>2, <1>5
  <2> QED  BY <1>1, <1>5, <2>1
<1>8. p = Len(texts[d + 1]) => Head(s) = "NL" /\ e[d + 1] = 1
  BY <1>1, <1>2, <1>5
<1> DEFINE Shifted(k) == [j \in k..n |-> e[j] - 1]
<1>9. ASSUME NEW k \in d..n, NEW q \in Nat, e[k] - 1 = -q,
             \A j \in (k + 1)..n : e[j] >= 2
      PROVE  Cut(t, k, texts, Shifted(k), q)
  <2> DEFINE f == Shifted(k)
  <2>1. /\ f \in [k..n -> Int] /\ f[k] = -q /\ f[n] = Len(t)
        /\ \A j \in k..n : f[j] = e[j] - 1 /\ e[j] \in Int
    <3>1. \A j \in k..n : j \in d..n  BY <1>1
    <3>2. n \in k..n /\ k \in k..n  BY <1>1
    <3> QED  BY <1>1, <1>2, <1>9, <3>1, <3>2
  <2> HIDE DEF f
  <2>2. ASSUME NEW j \in (k + 1)..n
        PROVE  /\ f[j] = f[j - 1] + Len(texts[j]) + 1
               /\ f[j] \in 1..Len(t) /\ t[f[j]] = "NL"
               /\ \A i \in 1..Len(texts[j]) : f[j - 1] + i >= 1 => t[f[j - 1] + i] = texts[j][i]
    <3>1. j \in (d + 1)..n /\ j \in k..n /\ j - 1 \in k..n  BY <1>1
    <3>2. /\ e[j] = e[j - 1] + Len(texts[j]) + 1 /\ e[j] \in 2..Len(s) /\ s[e[j]] = "NL"
          /\ f[j] = e[j] - 1 /\ f[j - 1] = e[j - 1] - 1 /\ e[j - 1] \in Int
          /\ Len(texts[j]) \in Nat
      BY <1>1, <1>2, <1>4, <1>9, <2>1, <3>1
    <3>3. f[j] \in 1..Len(t) /\ t[f[j]] = "NL"  BY <1>1, <3>2
    <3>4. ASSUME NEW i \in 1..Len(texts[j]), f[j - 1] + i >= 1
          PROVE  t[f[j - 1] + i] = texts[j][i]
      <4> DEFINE x == e[j - 1]
                 m == Len(texts[j])
      <4>1. /\ x \in Int /\ m \in Nat /\ x + m + 1 \in 2..Len(s) /\ f[j - 1] = x - 1
            /\ i \in 1..m
        BY <3>2
      <4>2. x + i >= 1 => s[x + i] = texts[j][i]  BY <1>2, <3>1
      <4> HIDE DEF x, m, f
      <4>3. x + i \in 2..Len(s) /\ (x + i) - 1 = f[j - 1] + i
        BY <1>1, <3>4, <4>1
      <4>4. t[(x + i) - 1] = s[x + i]  BY <1>1, <4>3
      <4> QED  BY <4>2, <4>3, <4>4
    <3>5. f[j] = f[j - 1] + Len(texts[j]) + 1
      <4> DEFINE x == e[j - 1]
                 y == e[j]
                 m == Len(texts[j])
      <4>1. y = x + m + 1 /\ x \in Int /\ m \in Nat /\ f[j] = y - 1 /\ f[j - 1] = x - 1
        BY <3>2
      <4> HIDE DEF x, y, m, f
      <4>2. y - 1 = (x - 1) + m + 1  BY <4>1
      <4>3. f[j] = f[j - 1] + m + 1  BY <4>1, <4>2, Zenon
      <4> QED  BY <4>3 DEF m
    <3>6. \A i \in 1..Len(texts[j]) : f[j - 1] + i >= 1 => t[f[j - 1] + i] = texts[j][i]
      <4> HIDE DEF f, t
      <4> QED  BY <3>4
    <3> QED  BY <3>3, <3>5, <3>6, Zenon
  <2> QED  BY <1>9, <2>1, <2>2 DEF Cut, n, f
<1>10. \A j \in (d + 2)..n : e[j] >= 2
  <2> SUFFICES ASSUME NEW j \in (d + 2)..n  PROVE e[j] >= 2
    OBVIOUS
  <2>1. j \in (d + 1)..n /\ j - 1 \in (d + 1)..n  BY <1>1
  <2>2. /\ e[j] = e[j - 1] + Len(texts[j]) + 1 /\ e[j - 1] \in 1..Len(s)
        /\ Len(texts[j]) \in Nat
    BY <1>2, <1>4, <2>1
  <2> QED  BY <1>1, <2>2
<1>11. CASE p = Len(texts[d + 1])
  <2>1. Cut(t, d + 1, texts, Shifted(d + 1), 0)
    <3>1. d + 1 \in d..n /\ e[d + 1] - 1 = -0  BY <1>1, <1>3, <1>8, <1>11
    <3>2. \A j \in ((d + 1) + 1)..n : e[j] >= 2  BY <1>10
    <3> QED  BY <1>9, <3>1, <3>2
  <2> HIDE DEF Shifted
  <2> QED  BY <1>3, <1>8, <1>11, <2>1 DEF n, t
<1>12. CASE p < Len(texts[d + 1])
  <2>1. Cut(t, d, texts, Shifted(d), p + 1)
    <3>1. d \in d..n /\ e[d] - 1 = -(p + 1) /\ p + 1 \in Nat  BY <1>1, <1>2, <1>3
    <3>2. e[d + 1] >= 2
      <4>1. e[d + 1] = -p + Len(texts[d + 1]) + 1 /\ Len(texts[d + 1]) \in Nat /\ p \in Nat
        BY <1>2, <1>5
      <4> DEFINE m == Len(texts[d + 1])
                 x == e[d + 1]
      <4>2. x = -p + m + 1 /\ m \in Nat /\ p \in Nat /\ p < m  BY <1>12, <4>1
      <4> HIDE DEF m, x
      <4>3. x >= 2  BY <4>2
      <4> QED  BY <4>3 DEF x
    <3>3. \A j \in (d + 1)..n : e[j] >= 2
      <4>1. \A j \in (d + 1)..n : j = d + 1 \/ j \in (d + 2)..n  BY <1>1
      <4> QED  BY <1>10, <3>2, <4>1
    <3> QED  BY <1>9, <3>1, <3>3
  <2> HIDE DEF Shifted
  <2> QED  BY <1>3, <1>7, <1>12, <2>1 DEF n, t
<1> QED  BY <1>2, <1>5, <1>6, <1>11, <1>12

\* The bytes that are under way.
Stream == Content \o sending

LEMMA StreamType ==
  ASSUME RingInv, SendingOK
  PROVE  Stream \in Seq(Bytes) /\ Content \in Seq(Bytes)
BY ContentType DEF Stream, SendingOK

LEMMA StreamBegins ==
  ASSUME RingInv, SendingOK, NEW text \in Lines, BeginLine(text)
  PROVE  Stream' = Stream \o Append(text, "NL")
<1>1. Content' = Content /\ sending = <<>> /\ sending' = Append(text, "NL")
  BY DEF BeginLine, ringVars, Content
<1>2. Append(text, "NL") \in Seq(Bytes) /\ Content \in Seq(Bytes)
  <2>1. text \in Seq(Bytes)  BY LineAssumption
  <2> QED  BY <2>1, LineAssumption, StreamType
<1>3. Content \o <<>> = Content
  BY <1>2
<1> QED  BY <1>1, <1>3 DEF Stream

LEMMA StreamIngests ==
  ASSUME RingInv, SendingOK, IngestByte
  PROVE  Stream' = Stream
<1>1. /\ Head(sending) \in Bytes /\ sending \in Seq(Bytes) /\ sending # <<>>
      /\ sending' = Tail(sending) /\ Store(Head(sending))
  BY DEF IngestByte, SendingOK
<1>2. Content' = Append(Content, Head(sending)) /\ Content \in Seq(Bytes)
  BY <1>1, StoreAppends, StreamType
<1>3. \A c, t \in Seq(Bytes) : t # <<>> => Append(c, Head(t)) \o Tail(t) = c \o t
  OBVIOUS
<1> QED  BY <1>1, <1>2, <1>3 DEF Stream

LEMMA StreamTakes ==
  ASSUME RingInv, SendingOK, Fetch, UNCHANGED sending
  PROVE  Stream # <<>> /\ Head(Stream) = Oldest /\ Stream' = Tail(Stream)
<1>1. /\ Content # <<>> /\ Oldest = Head(Content) /\ Content' = Tail(Content)
      /\ Content \in Seq(Bytes) /\ sending \in Seq(Bytes)
  BY FetchTakesHead, StreamType DEF SendingOK
<1>2. \A c, t \in Seq(Bytes) : c # <<>> =>
        c \o t # <<>> /\ Head(c \o t) = Head(c) /\ Tail(c \o t) = Tail(c) \o t
  <2> SUFFICES ASSUME NEW c \in Seq(Bytes), NEW t \in Seq(Bytes), c # <<>>
               PROVE  c \o t # <<>> /\ Head(c \o t) = Head(c) /\ Tail(c \o t) = Tail(c) \o t
    OBVIOUS
  <2>1. Len(c \o t) = Len(c) + Len(t) /\ Len(c) >= 1 /\ (c \o t)[1] = c[1]
    OBVIOUS
  <2>2. Tail(c \o t) = Tail(c) \o t
    OBVIOUS
  <2> QED  BY <2>1, <2>2
<1> QED  BY <1>1, <1>2 DEF Stream

-----------------------------------------------------------------------------
(* Framing.                                                                *)

Texts == Seq(Bytes) \cup {TooLong}

\* What process() has made of the first p bytes of a line.
LineIs(text, p, chars, over) ==
  LET bare == BareUpTo(text)[p]
  IN /\ p \in 0..Len(text) /\ bare \in Seq(Bytes)
     /\ over <=> Len(bare) > MaxLine
     /\ chars = IF over THEN <<>> ELSE bare

\* While no byte is lost, what is left of the lines is under way.
Framed ==
  /\ Len(dispatched) <= Len(sent)
  /\ \A i \in 1..Len(dispatched) : dispatched[i] = Received(sent[i])
  /\ \E e, p :
       /\ Cut(Stream, Len(dispatched), sent, e, p)
       /\ Len(dispatched) < Len(sent) => LineIs(sent[Len(dispatched) + 1], p, line, dropping)
       /\ Len(dispatched) = Len(sent) => line = <<>> /\ dropping = FALSE

\* The latch has not been left since the last loss without a CLEAR_SAFE.
LatchInv == lost /\ ~cleared => safe

FramingInv ==
  /\ RingInv /\ SendingOK /\ LatchInv
  /\ line \in Seq(Bytes) /\ Len(line) <= MaxLine /\ queued \in 0..JobCapacity
  /\ sent \in Seq(Lines) /\ dispatched \in Seq(Texts) /\ accepted \in Seq(Seq(Bytes))
  /\ dropping \in BOOLEAN
  /\ ~lost => Framed

\* A line of which nothing is there yet.
LEMMA NothingYet ==
  ASSUME NEW text \in Lines
  PROVE  LineIs(text, 0, <<>>, FALSE)
<1>1. Len(text) \in Nat /\ BareUpTo(text)[0] = <<>>
  BY LineAssumption, BareFacts
<1> QED  BY <1>1, LineAssumption DEF LineIs

\* One more byte of it, but not its end.
LEMMA LineGrows ==
  ASSUME NEW text \in Lines, NEW p, NEW chars, NEW over, LineIs(text, p, chars, over),
         p < Len(text), over \in BOOLEAN, NEW chars2, NEW over2,
         \/ over /\ chars2 = chars /\ over2 = over
         \/ ~over /\ text[p + 1] = "CR" /\ chars2 = chars /\ over2 = over
         \/ /\ ~over /\ text[p + 1] # "CR"
            /\ IF Len(chars) >= MaxLine THEN chars2 = <<>> /\ over2 = TRUE
               ELSE chars2 = Append(chars, text[p + 1]) /\ over2 = over
  PROVE  LineIs(text, p + 1, chars2, over2)
<1> DEFINE b == BareUpTo(text)[p]
           b2 == BareUpTo(text)[p + 1]
<1>1. /\ p + 1 \in 1..Len(text) /\ p + 1 \in 0..Len(text) /\ (p + 1) - 1 = p
      /\ text[p + 1] \in Bytes /\ Len(text) \in Nat
  BY LineAssumption DEF LineIs
<1>2. b2 = IF text[p + 1] = "CR" THEN b ELSE Append(b, text[p + 1])
  BY <1>1, BareFacts DEF BareNext
<1>3. b \in Seq(Bytes) /\ (over <=> Len(b) > MaxLine) /\ chars = IF over THEN <<>> ELSE b
  BY DEF LineIs
<1> HIDE DEF b, b2
<1>4. b2 \in Seq(Bytes) /\ Len(b2) = (IF text[p + 1] = "CR" THEN Len(b) ELSE Len(b) + 1)
  BY <1>1, <1>2, <1>3
<1>5. (over2 <=> Len(b2) > MaxLine) /\ chars2 = IF over2 THEN <<>> ELSE b2
  <2>1. Len(b) \in Nat /\ MaxLine \in Nat  BY <1>3, LineAssumption
  <2>2. CASE over
    BY <1>3, <1>4, <2>1, <2>2
  <2>3. CASE ~over /\ text[p + 1] = "CR"
    BY <1>2, <1>3, <2>3
  <2>4. CASE ~over /\ text[p + 1] # "CR"
    BY <1>2, <1>3, <1>4, <2>1, <2>4
  <2> QED  BY <2>2, <2>3, <2>4
<1> QED  BY <1>1, <1>4, <1>5 DEF LineIs, b2

\* The whole of it.
LEMMA LineIsWhole ==
  ASSUME NEW text \in Lines, NEW chars, NEW over, over \in BOOLEAN,
         LineIs(text, Len(text), chars, over)
  PROVE  Received(text) = IF over THEN TooLong ELSE chars
BY DEF LineIs, Received

\* What dispatch_line does outside the line buffer.
LEMMA DispatchStep ==
  ASSUME LatchInv, queued \in 0..JobCapacity, accepted \in Seq(Seq(Bytes)),
         line \in Seq(Bytes), dispatched \in Seq(Texts), DispatchLine(line)
  PROVE  /\ LatchInv' /\ queued' \in 0..JobCapacity /\ accepted' \in Seq(Seq(Bytes))
         /\ lost' = lost /\ dispatched' = Append(dispatched, line)
         /\ accepted' # accepted => /\ ~safe /\ IsSched(line)
                                    /\ Last(accepted') = Position(line)
<1>1. lost' = lost /\ dispatched' = Append(dispatched, line)
  BY DEF DispatchLine
<1>2. CASE DispatchClear(line) \/ DispatchOther(line)
  BY <1>1, <1>2 DEF DispatchClear, DispatchOther, LatchInv
<1>3. CASE DispatchSched(line)
  <2>1. line # <<>> /\ IsSched(line)
    BY <1>3 DEF DispatchSched, Schedulable, IsSched
  <2>2. Position(line) \in Seq(Bytes)
    BY <2>1 DEF Position
  <2>3. cleared' = cleared /\ (safe => safe')
    BY <1>3 DEF DispatchSched, EnterSafe
  <2>4. \/ accepted' = accepted /\ queued' = queued
        \/ /\ accepted' = Append(accepted, Position(line)) /\ ~safe
           /\ queued' = queued + 1 /\ queued < JobCapacity /\ safe' = safe
    BY <1>3 DEF DispatchSched
  <2>5. queued' \in 0..JobCapacity
    BY <2>4, LineAssumption
  <2>6. accepted' \in Seq(Seq(Bytes)) /\ (accepted' # accepted => Last(accepted') = Position(line))
    <3> DEFINE P == Seq(Bytes)
    <3>1. accepted \in Seq(P) /\ Position(line) \in P  BY <2>2
    <3> HIDE DEF P
    <3>2. /\ Append(accepted, Position(line)) \in Seq(P)
          /\ Len(Append(accepted, Position(line))) = Len(accepted) + 1
          /\ Append(accepted, Position(line))[Len(accepted) + 1] = Position(line)
      BY <3>1
    <3> QED  BY <2>4, <3>1, <3>2 DEF Last, P
  <2> QED  BY <1>1, <2>1, <2>3, <2>4, <2>5, <2>6 DEF LatchInv
<1> QED  BY <1>2, <1>3 DEF DispatchLine

\* While nothing is lost, the line process() dispatches is a line sent.
LEMMA EndsTheLine ==
  ASSUME FramingInv, ~lost, Fetch, UNCHANGED sending, Oldest = "NL"
  PROVE  /\ Len(dispatched) < Len(sent)
         /\ Received(sent[Len(dispatched) + 1]) = IF dropping THEN TooLong ELSE line
         /\ \E f : Cut(Stream', Len(dispatched) + 1, sent, f, 0)
<1>1. PICK e, p :
        /\ Cut(Stream, Len(dispatched), sent, e, p)
        /\ Len(dispatched) < Len(sent) => LineIs(sent[Len(dispatched) + 1], p, line, dropping)
  BY DEF FramingInv, Framed
<1>2. Stream \in Seq(Bytes) /\ Stream # <<>> /\ Head(Stream) = "NL" /\ Stream' = Tail(Stream)
  BY StreamType, StreamTakes DEF FramingInv
<1>3. Len(dispatched) \in Nat /\ sent \in Seq(Lines) /\ Len(dispatched) <= Len(sent)
  BY DEF FramingInv, Framed
<1>4. /\ Len(dispatched) < Len(sent) /\ p = Len(sent[Len(dispatched) + 1])
      /\ \E f : Cut(Stream', Len(dispatched) + 1, sent, f, 0)
  BY <1>1, <1>2, <1>3, CutTakes
<1>5. sent[Len(dispatched) + 1] \in Lines
  BY <1>3, <1>4
<1>6. Received(sent[Len(dispatched) + 1]) = IF dropping THEN TooLong ELSE line
  BY <1>1, <1>4, <1>5, LineIsWhole DEF FramingInv
<1> QED  BY <1>4, <1>6

\* The end of a line: the next one begins.
LEMMA NextLine ==
  ASSUME FramingInv, ~lost, Fetch, UNCHANGED <<sending, sent>>, Oldest = "NL",
         dispatched' = Append(dispatched, IF dropping THEN TooLong ELSE line),
         line' = <<>>, dropping' = FALSE
  PROVE  Framed'
<1>1. /\ Len(dispatched) \in Nat /\ Len(dispatched) < Len(sent)
      /\ Received(sent[Len(dispatched) + 1]) = IF dropping THEN TooLong ELSE line
  BY EndsTheLine DEF FramingInv
<1>2. PICK f : Cut(Stream', Len(dispatched) + 1, sent, f, 0)
  BY EndsTheLine
<1>3. /\ Len(dispatched') = Len(dispatched) + 1
      /\ dispatched'[Len(dispatched) + 1] = IF dropping THEN TooLong ELSE line
      /\ \A i \in 1..Len(dispatched) : dispatched'[i] = dispatched[i]
  BY DEF FramingInv, Texts
<1>4. \A i \in 1..Len(dispatched') : dispatched'[i] = Received(sent'[i])
  <2>1. \A i \in 1..Len(dispatched') : i \in 1..Len(dispatched) \/ i = Len(dispatched) + 1
    BY <1>1, <1>3
  <2>2. \A i \in 1..Len(dispatched) : dispatched[i] = Received(sent[i])
    BY DEF FramingInv, Framed
  <2> QED  BY <1>1, <1>3, <2>1, <2>2
<1>5. Len(dispatched') < Len(sent') => LineIs(sent'[Len(dispatched') + 1], 0, line', dropping')
  <2> SUFFICES ASSUME Len(dispatched') < Len(sent')
               PROVE  LineIs(sent'[Len(dispatched') + 1], 0, line', dropping')
    OBVIOUS
  <2>1. sent'[Len(dispatched') + 1] \in Lines
    BY <1>1, <1>3 DEF FramingInv
  <2> QED  BY <2>1, NothingYet
<1>6. Cut(Stream', Len(dispatched'), sent', f, 0)
  BY <1>2, <1>3
<1>7. Len(dispatched') <= Len(sent')
  BY <1>1, <1>3 DEF FramingInv
<1> QED  BY <1>4, <1>5, <1>6, <1>7 DEF Framed

\* A byte before the end: the line goes on.
LEMMA SameLine ==
  ASSUME FramingInv, ~lost, Fetch, UNCHANGED <<sending, sent, dispatched>>, Oldest # "NL",
         \/ dropping /\ line' = line /\ dropping' = dropping
         \/ ~dropping /\ Oldest = "CR" /\ line' = line /\ dropping' = dropping
         \/ /\ ~dropping /\ Oldest # "CR"
            /\ IF LineFull THEN line' = <<>> /\ dropping' = TRUE
               ELSE line' = Append(line, Oldest) /\ dropping' = dropping
  PROVE  Framed'
<1>1. PICK e, p :
        /\ Cut(Stream, Len(dispatched), sent, e, p)
        /\ Len(dispatched) < Len(sent) => LineIs(sent[Len(dispatched) + 1], p, line, dropping)
  BY DEF FramingInv, Framed
<1>2. /\ Stream \in Seq(Bytes) /\ Stream # <<>> /\ Head(Stream) = Oldest /\ Head(Stream) # "NL"
      /\ Stream' = Tail(Stream)
  BY StreamType, StreamTakes DEF FramingInv
<1>3. /\ Len(dispatched) \in Nat /\ sent \in Seq(Lines) /\ Len(dispatched) <= Len(sent)
      /\ \A i \in 1..Len(dispatched) : dispatched[i] = Received(sent[i])
  BY DEF FramingInv, Framed
<1>4. /\ Len(dispatched) < Len(sent) /\ p < Len(sent[Len(dispatched) + 1])
      /\ sent[Len(dispatched) + 1][p + 1] = Oldest
      /\ \E f : Cut(Stream', Len(dispatched), sent, f, p + 1)
  BY <1>1, <1>2, <1>3, CutTakes
<1>5. PICK f : Cut(Stream', Len(dispatched), sent, f, p + 1)
  BY <1>4
<1>6. sent[Len(dispatched) + 1] \in Lines
  BY <1>3, <1>4
<1>7. LineIs(sent[Len(dispatched) + 1], p + 1, line', dropping')
  BY <1>1, <1>4, <1>6, LineGrows DEF LineFull, FramingInv
<1>8. Len(dispatched) # Len(sent)
  BY <1>3, <1>4
<1> QED  BY <1>3, <1>5, <1>7, <1>8 DEF Framed

\* process() keeps the framing.
LEMMA ProcessStep ==
  ASSUME FramingInv, Process
  PROVE  /\ ~lost' => Framed'
         /\ LatchInv' /\ queued' \in 0..JobCapacity /\ accepted' \in Seq(Seq(Bytes))
         /\ line' \in Seq(Bytes) /\ Len(line') <= MaxLine /\ dropping' \in BOOLEAN
         /\ dispatched' \in Seq(Texts)
         /\ accepted' # accepted =>
              /\ ~safe /\ IsSched(line) /\ Last(accepted') = Position(line)
              /\ ~dropping /\ Oldest = "NL"
<1> USE DEF FramingInv
<1>1. Fetch /\ UNCHANGED <<sending, sent>> /\ (ProcessDropped \/ ProcessByte)
  BY DEF Process, peerVars
<1>2. MaxLine \in Nat /\ Oldest \in Bytes
  <2>1. count # 0  BY <1>1 DEF Fetch
  <2>2. Content # <<>> /\ Oldest = Head(Content)  BY <1>1, FetchTakesHead
  <2> QED  BY <2>2, ContentType, LineAssumption
<1>3. CASE ProcessDropped /\ Oldest = "NL"
  <2>1. /\ dropping /\ line' = <<>> /\ dropping' = FALSE
        /\ dispatched' = Append(dispatched, TooLong)
        /\ UNCHANGED <<outsideVars, accepted, lost, cleared>>
    BY <1>3 DEF ProcessDropped
  <2>2. ~lost' => Framed'  BY <1>1, <1>3, <2>1, NextLine
  <2>3. dispatched' \in Seq(Texts)  BY <2>1 DEF Texts
  <2>4. line' \in Seq(Bytes) /\ Len(line') <= MaxLine /\ dropping' \in BOOLEAN
    <3>1. <<>> \in Seq(Bytes) /\ Len(<<>>) = 0  OBVIOUS
    <3>2. Len(<<>>) <= MaxLine /\ FALSE \in BOOLEAN  BY <1>2, <3>1
    <3> QED  BY <2>1, <3>1, <3>2, Zenon
  <2>5. LatchInv' /\ queued' \in 0..JobCapacity /\ accepted' \in Seq(Seq(Bytes)) /\ accepted' = accepted
    BY <2>1 DEF LatchInv, outsideVars
  <2> QED  BY <2>2, <2>3, <2>4, <2>5
<1>4. CASE ProcessDropped /\ Oldest # "NL"
  <2>1. dropping /\ UNCHANGED <<lineVars, outsideVars, traceVars>>
    BY <1>4 DEF ProcessDropped, NoDispatch
  <2>2. ~lost' => Framed'  BY <1>1, <1>4, <2>1, SameLine DEF lineVars, traceVars
  <2> QED  BY <2>1, <2>2 DEF LatchInv, lineVars, outsideVars, traceVars
<1>5. CASE ProcessByte /\ Oldest = "NL"
  <2>1. ~dropping /\ DispatchLine(line) /\ line' = <<>> /\ dropping' = dropping
    BY <1>5 DEF ProcessByte
  <2>2. /\ LatchInv' /\ queued' \in 0..JobCapacity /\ accepted' \in Seq(Seq(Bytes))
        /\ lost' = lost /\ dispatched' = Append(dispatched, line)
        /\ accepted' # accepted => /\ ~safe /\ IsSched(line)
                                   /\ Last(accepted') = Position(line)
    BY <2>1, DispatchStep
  <2>3. ~lost' => Framed'  BY <1>1, <1>5, <2>1, <2>2, NextLine
  <2>4. dispatched' \in Seq(Texts)  BY <2>2 DEF Texts
  <2> QED  BY <1>2, <1>5, <2>1, <2>2, <2>3, <2>4
<1>6. CASE ProcessByte /\ Oldest # "NL"
  <2>1. /\ ~dropping /\ UNCHANGED <<outsideVars, traceVars>>
        /\ \/ Oldest = "CR" /\ line' = line /\ dropping' = dropping
           \/ /\ Oldest # "CR"
              /\ IF LineFull THEN line' = <<>> /\ dropping' = TRUE
                 ELSE line' = Append(line, Oldest) /\ dropping' = dropping
    BY <1>6 DEF ProcessByte, NoDispatch, lineVars
  <2>2. ~lost' => Framed'  BY <1>1, <1>6, <2>1, SameLine DEF traceVars
  <2>3. line' \in Seq(Bytes) /\ Len(line') <= MaxLine /\ dropping' \in BOOLEAN
    <3>1. <<>> \in Seq(Bytes) /\ Len(<<>>) = 0  OBVIOUS
    <3>2. CASE line' = <<>> /\ dropping' = TRUE
      BY <1>2, <3>1, <3>2
    <3>3. CASE line' = Append(line, Oldest) /\ dropping' = dropping /\ ~LineFull
      <4>1. line \in Seq(Bytes) /\ Len(line) \in Nat /\ dropping \in BOOLEAN  OBVIOUS
      <4>2. line' \in Seq(Bytes) /\ Len(line') = Len(line) + 1  BY <1>2, <3>3, <4>1
      <4> QED  BY <1>2, <3>3, <4>1, <4>2 DEF LineFull
    <3>4. CASE line' = line /\ dropping' = dropping
      BY <3>4
    <3> QED  BY <2>1, <3>2, <3>3, <3>4
  <2> QED  BY <2>1, <2>2, <2>3 DEF LatchInv, outsideVars, traceVars
<1> QED  BY <1>1, <1>3, <1>4, <1>5, <1>6

\* A line more is sent.
LEMMA BeginStep ==
  ASSUME FramingInv, NEW text \in Lines, BeginLine(text), ~lost
  PROVE  Framed'
<1>1. PICK e, p :
        /\ Cut(Stream, Len(dispatched), sent, e, p)
        /\ Len(dispatched) < Len(sent) => LineIs(sent[Len(dispatched) + 1], p, line, dropping)
        /\ Len(dispatched) = Len(sent) => line = <<>> /\ dropping = FALSE
  BY DEF FramingInv, Framed
<1>2. /\ Stream \in Seq(Bytes) /\ Stream' = Stream \o Append(text, "NL")
      /\ Len(dispatched) \in Nat /\ sent \in Seq(Lines) /\ Len(dispatched) <= Len(sent)
      /\ sent' = Append(sent, text) /\ UNCHANGED <<dispatched, line, dropping>>
      /\ \A i \in 1..Len(dispatched) : dispatched[i] = Received(sent[i])
  <2>1. Stream \in Seq(Bytes) /\ Stream' = Stream \o Append(text, "NL")
    BY StreamType, StreamBegins DEF FramingInv
  <2>2. Len(dispatched) \in Nat /\ sent \in Seq(Lines)
    BY DEF FramingInv
  <2>3. /\ Len(dispatched) <= Len(sent)
        /\ \A i \in 1..Len(dispatched) : dispatched[i] = Received(sent[i])
    BY DEF FramingInv, Framed
  <2>4. sent' = Append(sent, text) /\ UNCHANGED <<dispatched, line, dropping>>
    BY DEF BeginLine, lineVars, traceVars
  <2> QED  BY <2>1, <2>2, <2>3, <2>4
<1>3. PICK f : Cut(Stream', Len(dispatched), sent', f, p)
  BY <1>1, <1>2, CutBegins
<1>4. /\ Len(sent') = Len(sent) + 1 /\ sent'[Len(sent) + 1] = text
      /\ \A i \in 1..Len(sent) : sent'[i] = sent[i]
  BY <1>2
<1>5. LineIs(sent'[Len(dispatched) + 1], p, line, dropping)
  <2>1. CASE Len(dispatched) < Len(sent)
    <3>1. Len(dispatched) + 1 \in 1..Len(sent)  BY <1>2, <2>1
    <3> QED  BY <1>1, <1>4, <2>1, <3>1
  <2>2. CASE Len(dispatched) = Len(sent)
    <3>1. p \in Nat /\ -p = Len(Stream) /\ Len(Stream) \in Nat  BY <1>1, <1>2, <2>2 DEF Cut
    <3>2. p = 0  BY <3>1
    <3>3. LineIs(text, 0, <<>>, FALSE)  BY NothingYet
    <3> QED  BY <1>1, <1>4, <2>2, <3>2, <3>3
  <2> QED  BY <1>2, <2>1, <2>2
<1>6. \A i \in 1..Len(dispatched) : dispatched[i] = Received(sent'[i])
  <2>1. \A i \in 1..Len(dispatched) : i \in 1..Len(sent)  BY <1>2
  <2> QED  BY <1>2, <1>4, <2>1
<1>7. Len(dispatched) < Len(sent')
  BY <1>2, <1>4
<1>8. /\ Len(dispatched') <= Len(sent') /\ Len(dispatched') # Len(sent')
      /\ \A i \in 1..Len(dispatched') : dispatched'[i] = Received(sent'[i])
  BY <1>2, <1>4, <1>6, <1>7
<1>9. /\ Cut(Stream', Len(dispatched'), sent', f, p)
      /\ LineIs(sent'[Len(dispatched') + 1], p, line', dropping')
  BY <1>2, <1>3, <1>5
<1> QED  BY <1>8, <1>9 DEF Framed

LEMMA FramingStep == FramingInv /\ [ProtocolNext]_protocolVars => FramingInv'
<1> SUFFICES ASSUME FramingInv, [ProtocolNext]_protocolVars  PROVE FramingInv'
  OBVIOUS
<1>1. RingInv' /\ SendingOK'
  BY RingStep, SendingStep, ProtocolStepsRing DEF FramingInv
<1>2. ASSUME NEW text \in Lines, BeginLine(text)  PROVE FramingInv'
  <2>1. /\ UNCHANGED <<line, dropping, safe, queued, dispatched, accepted, lost, cleared>>
        /\ sent' = Append(sent, text)
    BY <1>2 DEF BeginLine, lineVars, outsideVars, traceVars
  <2>2. ~lost => Framed'  BY <1>2, BeginStep
  <2>3. sent' \in Seq(Lines)  BY <2>1 DEF FramingInv
  <2> QED  BY <1>1, <2>1, <2>2, <2>3 DEF FramingInv, LatchInv
<1>3. CASE IngestByte
  <2>1. UNCHANGED <<lineVars, outsideVars, sent, traceVars>>  BY <1>3 DEF IngestByte
  <2>2. Stream' = Stream  BY <1>3, StreamIngests DEF FramingInv
  <2>3. Framed => Framed'  BY <2>1, <2>2 DEF Framed, lineVars, traceVars
  <2> QED  BY <1>1, <2>1, <2>3 DEF FramingInv, LatchInv, lineVars, outsideVars, traceVars
<1>4. CASE IngestOverflow
  BY <1>1, <1>4 DEF IngestOverflow, EnterSafe, FramingInv, LatchInv, lineVars
<1>5. CASE Process
  BY <1>1, <1>5, ProcessStep DEF FramingInv, Process, peerVars
<1>6. CASE UNCHANGED protocolVars
  <2>1. UNCHANGED <<ringVars, lineVars, outsideVars, peerVars, traceVars>>
    BY <1>6 DEF protocolVars
  <2>2. Stream' = Stream  BY <2>1 DEF Stream, Content, ringVars, peerVars
  <2>3. Framed => Framed'  BY <2>1, <2>2 DEF Framed, lineVars, peerVars, traceVars
  <2> QED  BY <1>1, <2>1, <2>3 DEF FramingInv, LatchInv, lineVars, outsideVars, peerVars, traceVars
<1> QED  BY <1>2, <1>3, <1>4, <1>5, <1>6 DEF ProtocolNext

LEMMA FramingInitially == ProtocolInit => FramingInv
<1> SUFFICES ASSUME ProtocolInit  PROVE FramingInv
  OBVIOUS
<1>1. RingInv /\ SendingOK
  BY RingInitInv DEF ProtocolInit, SendingOK
<1>2. Stream = <<>>
  <2>1. Content = <<>>  BY DEF ProtocolInit, RingInit, Content
  <2> QED  BY <2>1 DEF Stream, ProtocolInit
<1>3. Framed
  <2> DEFINE e == [j \in 0..0 |-> 0]
  <2>1. Len(dispatched) = 0 /\ Len(sent) = 0 /\ line = <<>> /\ dropping = FALSE
    BY DEF ProtocolInit
  <2>2. Cut(<<>>, 0, <<>>, e, 0)
    <3>1. Len(<<>>) = 0 /\ e \in [0..0 -> Int] /\ e[0] = 0  OBVIOUS
    <3>2. 0 \in Nat /\ (0 + 1)..0 = {} /\ \A x \in Nat : x = 0 => -x = x  OBVIOUS
    <3> HIDE DEF e
    <3>3. /\ e \in [0..Len(<<>>) -> Int] /\ e[Len(<<>>)] = Len(<<>>)
          /\ (0 + 1)..Len(<<>>) = {}
      BY <3>1, <3>2, Zenon
    <3> QED  BY <3>1, <3>2, <3>3, Zenon DEF Cut
  <2>3. Cut(Stream, Len(dispatched), sent, e, 0)
    BY <1>2, <2>1, <2>2 DEF ProtocolInit
  <2> QED  BY <2>1, <2>3 DEF Framed
<1>4. \A S : <<>> \in Seq(S) /\ Len(<<>>) = 0
  OBVIOUS
<1>5. /\ line \in Seq(Bytes) /\ Len(line) <= MaxLine /\ queued \in 0..JobCapacity
      /\ sent \in Seq(Lines) /\ dispatched \in Seq(Texts) /\ accepted \in Seq(Seq(Bytes))
      /\ dropping \in BOOLEAN
  <2>1. Len(<<>>) <= MaxLine /\ 0 \in 0..JobCapacity /\ FALSE \in BOOLEAN
    BY LineAssumption
  <2> QED  BY <1>4, <2>1, Zenon DEF ProtocolInit
<1> QED  BY <1>1, <1>3, <1>5 DEF ProtocolInit, FramingInv, LatchInv

\* Every line that arrives whole is dispatched as it was sent, once and in
\* order, or named too long; and the two buffers stay within their arrays.
THEOREM FramingStaysExact == ProtocolSpec => []FramingIsExact
<1>1. FramingInv => FramingIsExact
  BY DEF FramingInv, Framed, FramingIsExact, ProtocolTypeOK, RingInv
<1> QED  BY <1>1, FramingInitially, FramingStep, PTL DEF ProtocolSpec

\* No damage reaches the scheduler unnoticed: a position nobody sent is
\* enqueued only after a CLEAR_SAFE dispatched since the loss.
THEOREM SafeAlwaysCatchesDamage == ProtocolSpec => SafeCatchesDamage
<1>1. ASSUME FramingInv, [ProtocolNext]_protocolVars,
             accepted' # accepted, Last(accepted') \notin SentPositions
      PROVE  lost /\ cleared
  <2>1. Process
    BY <1>1 DEF ProtocolNext, BeginLine, IngestByte, IngestOverflow, protocolVars, traceVars
  <2>2. /\ ~safe /\ IsSched(line) /\ Last(accepted') = Position(line)
        /\ ~dropping /\ Oldest = "NL"
    BY <1>1, <2>1, ProcessStep
  <2>3. lost
    <3> SUFFICES ASSUME ~lost  PROVE FALSE
      OBVIOUS
    <3>1. Fetch /\ UNCHANGED sending  BY <2>1 DEF Process, peerVars
    <3>2. /\ Len(dispatched) < Len(sent) /\ Received(sent[Len(dispatched) + 1]) = line
      BY <1>1, <2>2, <3>1, EndsTheLine
    <3>3. sent[Len(dispatched) + 1] \in Lines
      <4>1. Len(dispatched) \in Nat /\ sent \in Seq(Lines)  BY <1>1 DEF FramingInv
      <4> QED  BY <3>2, <4>1
    <3> QED  BY <1>1, <2>2, <3>2, <3>3 DEF SentPositions
  <2> QED  BY <1>1, <2>2, <2>3 DEF FramingInv, LatchInv
<1> QED  BY <1>1, FramingInitially, FramingStep, PTL DEF ProtocolSpec, SafeCatchesDamage
=============================================================================
