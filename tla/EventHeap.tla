------------------------------ MODULE EventHeap ------------------------------
(***************************************************************************)
(* The firmware's event queue (firmware/mcu/src/queue.c): a binary heap in *)
(* an array.  heap[1 .. Len(heap)] is s_heap[0 .. s_size - 1]; the parent  *)
(* of node i is i \div 2.  A loop of the code is a function of the number   *)
(* of turns; a turn after the loop has ended changes nothing, and no loop  *)
(* takes more turns than there are nodes.                                  *)
(***************************************************************************)
EXTENDS Integers, Sequences

CONSTANTS Ids,            (* what tells two events apart: lane and identity *)
          Ticks,          (* trigger ticks, a set of integers               *)
          QueueCapacity   (* QUEUE_CAPACITY                                 *)

ASSUME HeapAssumption == QueueCapacity \in Nat \ {0} /\ Ticks \subseteq Int

VARIABLE heap

Events == [id : Ids, trigger_tick : Ticks]

Earlier(e, f) == e.trigger_tick < f.trigger_tick

-----------------------------------------------------------------------------
\* heap_swap.
Swapped(h, i, j) == [h EXCEPT ![i] = h[j], ![j] = h[i]]

\* Mutant: the new event stays at the end.
PushedAtEnd(h, e) == Append(h, e)

\* One turn of queue_push's loop: the event at s.at changes places with its
\* parent when it is the earlier of the two; otherwise the loop is over.
Rise(s) ==
  LET parent == s.at \div 2
  IN IF s.at > 1 /\ Earlier(s.h[s.at], s.h[parent])
     THEN [h |-> Swapped(s.h, parent, s.at), at |-> parent]
     ELSE s

\* queue_push below capacity: the new event rises from the end.
Pushed(h, e) ==
  LET n == Len(h) + 1
      turn[k \in 0..n] == IF k = 0 THEN [h |-> Append(h, e), at |-> n]
                          ELSE Rise(turn[k - 1])
  IN turn[n].h

\* Mutants: the left child always; the last event leaves, not the root.
LeftChild(h, m, i) == 2 * i
PoppedLast(h) == SubSeq(h, 1, Len(h) - 1)

\* The child of i, among the first m, that queue_pop compares with: the
\* earlier one, the left one when they are equal.
EarlierChild(h, m, i) ==
  IF 2 * i + 1 <= m /\ Earlier(h[2 * i + 1], h[2 * i]) THEN 2 * i + 1 ELSE 2 * i

\* One turn of queue_pop's loop.
Sink(s) ==
  LET child == EarlierChild(s.h, Len(s.h), s.at)
  IN IF 2 * s.at <= Len(s.h) /\ Earlier(s.h[child], s.h[s.at])
     THEN [h |-> Swapped(s.h, s.at, child), at |-> child]
     ELSE s

\* queue_pop on a non-empty queue: the last event takes the root's place and
\* sinks from there.
Popped(h) ==
  LET m == Len(h) - 1
      turn[k \in 0..m] == IF k = 0 THEN [h |-> [i \in 1..m |-> IF i = 1 THEN h[m + 1] ELSE h[i]],
                                         at |-> 1]
                          ELSE Sink(turn[k - 1])
  IN turn[m].h

Full(h) == Len(h) >= QueueCapacity

-----------------------------------------------------------------------------
\* queue_push: refused at capacity.
Push(e) == /\ ~Full(heap)
           /\ heap' = Pushed(heap, e)

\* queue_pop: the event returned is heap[1].
Pop == /\ heap # <<>>
       /\ heap' = Popped(heap)

\* queue_clear: only the size is reset.
Clear == heap' = <<>>

HeapInit == heap = <<>>

Queued == {heap[i].id : i \in 1..Len(heap)}

HeapNext ==
  \/ \E e \in Events : e.id \notin Queued /\ Push(e)
  \/ Pop
  \/ Clear

HeapSpec == HeapInit /\ [][HeapNext]_heap

-----------------------------------------------------------------------------
\* The array holds events, at most the capacity of them.
HeapTypeOK == heap \in Seq(Events) /\ Len(heap) <= QueueCapacity

\* The heap order both loops rely on and restore: no event is earlier than
\* its parent.
HeapOrdered == \A i \in 2..Len(heap) : ~Earlier(heap[i], heap[i \div 2])

\* The array implements the priority queue: each push adds just its event,
\* each pop removes just the root and the root is an earliest event.
PQ == INSTANCE PriorityQueue WITH pending <- {heap[i] : i \in 1..Len(heap)}
ImplementsPriorityQueue == PQ!PQSpec
=============================================================================
