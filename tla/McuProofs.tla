------------------------------ MODULE McuProofs ------------------------------
(***************************************************************************)
(* Proofs about the firmware: the event heap (module EventHeap) for every  *)
(* capacity, and the scheduler around it (module Mcu).                     *)
(***************************************************************************)
EXTENDS Mcu, WellFoundedInduction, FiniteSetTheorems, TLAPS

-----------------------------------------------------------------------------
(* Induction, by the least counterexample.                                 *)

\* The natural numbers are well ordered.
LEMMA LeastOf ==
  ASSUME NEW T \in SUBSET Nat, T # {}
  PROVE  \E x \in T : \A y \in T : x <= y
<1>1. \E R : IsWellFoundedOn(R, Nat) /\ \A x, y \in Nat : y < x => <<y, x>> \in R
  <2> DEFINE R == OpToRel(<, Nat)
  <2>1. IsWellFoundedOn(R, Nat)
    BY NatLessThanWellFounded
  <2>2. \A x, y \in Nat : y < x => <<y, x>> \in R
    BY DEF OpToRel
  <2> QED BY <2>1, <2>2, Zenon
<1>2. PICK R : IsWellFoundedOn(R, Nat) /\ \A x, y \in Nat : y < x => <<y, x>> \in R
  BY <1>1, Zenon
<1>3. PICK x \in T : \A y \in T : ~ (<<y, x>> \in R)
  BY <1>2, WFMin, Zenon
<1>4. ASSUME NEW y \in T PROVE x <= y
  <2>1. ~(y < x)
    BY <1>2, <1>3, Zenon
  <2> QED BY <2>1
<1> QED BY <1>4, Zenon

-----------------------------------------------------------------------------
(* The array.                                                              *)

Contents(h) == {h[i] : i \in 1..Len(h)}

Distinct(h) == \A i, k \in 1..Len(h) : h[i] = h[k] => i = k

\* Every node but the one at `at` respects its parent, and the children of
\* that one respect its parent: the state of a loop of push.
RisingOrder(h, at) ==
  /\ \A i \in 2..Len(h) : i # at => h[i \div 2].trigger_tick <= h[i].trigger_tick
  /\ \A i \in 2..Len(h) : i \div 2 = at /\ at > 1 =>
       h[at \div 2].trigger_tick <= h[i].trigger_tick

\* The same of a loop of pop: the children of the one at `at` may be earlier.
SinkingOrder(h, at) ==
  /\ \A i \in 2..Len(h) : i \div 2 # at => h[i \div 2].trigger_tick <= h[i].trigger_tick
  /\ \A i \in 2..Len(h) : i \div 2 = at /\ at > 1 =>
       h[at \div 2].trigger_tick <= h[i].trigger_tick

Ordered(h) == \A i \in 2..Len(h) : h[i \div 2].trigger_tick <= h[i].trigger_tick

LEMMA EventsHaveTicks ==
  ASSUME NEW h \in Seq(Events), NEW i \in 1..Len(h)
  PROVE  h[i] \in Events /\ h[i].trigger_tick \in Int
<1>1. h[i] \in Events
  OBVIOUS
<1> QED BY <1>1, HeapAssumption DEF Events

\* A swap moves two events and keeps the rest.
LEMMA SwapFacts ==
  ASSUME NEW h \in Seq(Events), NEW i \in 1..Len(h), NEW j \in 1..Len(h)
  PROVE  LET w == Swapped(h, i, j) IN
           /\ w \in Seq(Events) /\ Len(w) = Len(h)
           /\ w[j] = h[i] /\ w[i] = h[j]
           /\ \A k \in 1..Len(h) : k # i /\ k # j => w[k] = h[k]
<1> DEFINE w == Swapped(h, i, j)
<1>1. h[i] \in Events /\ h[j] \in Events
  OBVIOUS
<1>2. w \in Seq(Events) /\ Len(w) = Len(h)
  BY <1>1 DEF Swapped
<1>3. \A k \in 1..Len(h) : w[k] = IF k = j THEN h[i] ELSE IF k = i THEN h[j] ELSE h[k]
  BY DEF Swapped
<1> QED BY <1>2, <1>3

LEMMA SwapKeeps ==
  ASSUME NEW h \in Seq(Events), NEW i \in 1..Len(h), NEW j \in 1..Len(h)
  PROVE  /\ Contents(Swapped(h, i, j)) = Contents(h)
         /\ Distinct(h) => Distinct(Swapped(h, i, j))
<1> DEFINE w == Swapped(h, i, j)
<1>1. /\ Len(w) = Len(h) /\ w[j] = h[i] /\ w[i] = h[j]
      /\ \A k \in 1..Len(h) : k # i /\ k # j => w[k] = h[k]
  BY SwapFacts
<1> HIDE DEF w
<1>2. \A k \in 1..Len(h) : w[k] \in Contents(h)
  BY <1>1 DEF Contents
<1>3. \A k \in 1..Len(h) : h[k] \in Contents(w)
  BY <1>1 DEF Contents
<1>4. Contents(w) = Contents(h)
  BY <1>1, <1>2, <1>3 DEF Contents
<1>5. Distinct(h) => Distinct(w)
  BY <1>1 DEF Distinct
<1> QED BY <1>4, <1>5 DEF w

\* No event is earlier than the root: of the nodes with an earlier event the
\* first has a parent with one.
LEMMA RootIsEarliest ==
  ASSUME NEW h \in Seq(Events), Ordered(h), NEW i \in 1..Len(h)
  PROVE  h[1].trigger_tick <= h[i].trigger_tick
<1> DEFINE Bad == {k \in 1..Len(h) : ~(h[1].trigger_tick <= h[k].trigger_tick)}
<1> SUFFICES ASSUME i \in Bad PROVE FALSE
  OBVIOUS
<1>1. PICK k \in Bad : \A l \in Bad : k <= l
  <2>1. Bad \in SUBSET Nat /\ Bad # {}
    OBVIOUS
  <2> HIDE DEF Bad
  <2> QED BY <2>1, LeastOf
<1>2. k \in 1..Len(h) /\ h[k].trigger_tick \in Int /\ h[1].trigger_tick \in Int
  BY EventsHaveTicks
<1>3. k # 1
  BY <1>2
<1>4. k \div 2 \in 1..Len(h) /\ k \div 2 < k
  BY <1>2, <1>3
<1>5. h[k \div 2].trigger_tick <= h[k].trigger_tick /\ h[k \div 2].trigger_tick \in Int
  BY <1>2, <1>3, <1>4, EventsHaveTicks DEF Ordered
<1>6. k \div 2 \notin Bad
  BY <1>1, <1>4
<1> QED BY <1>2, <1>4, <1>5, <1>6
-----------------------------------------------------------------------------
(* The loops, by the number of turns.                                      *)

Turn(down, s) == IF down THEN Sink(s) ELSE Rise(s)

IsLoop(f, n, x, down) == f = [k \in 0..n |-> IF k = 0 THEN x ELSE Turn(down, f[k - 1])]

\* The recursive functions of the model exist, whatever the number of turns.
LEMMA LoopsExist ==
  ASSUME NEW n \in Nat, NEW x, NEW down
  PROVE  \E f : IsLoop(f, n, x, down)
<1> DEFINE Bad == {j \in Nat : ~\E f : IsLoop(f, j, x, down)}
<1> SUFFICES ASSUME Bad # {} PROVE FALSE
  OBVIOUS
<1>1. PICK j \in Bad : \A l \in Bad : j <= l
  <2>1. Bad \in SUBSET Nat
    OBVIOUS
  <2> HIDE DEF Bad
  <2> QED BY <2>1, LeastOf
<1>2. CASE j = 0
  <2> DEFINE f == [k \in 0..0 |-> x]
  <2>1. IsLoop(f, 0, x, down)
    BY DEF IsLoop
  <2> QED BY <2>1, <1>2
<1>3. CASE j # 0
  <2>1. j \in Nat /\ j - 1 \in Nat
    BY <1>3
  <2>2. j - 1 \notin Bad
    <3> HIDE DEF Bad
    <3> QED BY <1>1, <2>1
  <2>3. PICK f : IsLoop(f, j - 1, x, down)
    BY <2>1, <2>2
  <2> DEFINE g == [k \in 0..j |-> IF k = j THEN Turn(down, f[j - 1]) ELSE f[k]]
  <2>4. ASSUME NEW k \in 0..j
        PROVE  g[k] = IF k = 0 THEN x ELSE Turn(down, g[k - 1])
    <3>1. CASE k = j
      BY <3>1, <1>3, <2>1
    <3>2. CASE k # j
      <4>1. k \in 0..(j - 1) /\ (k # 0 => k - 1 \in 0..(j - 1))
        BY <3>2, <2>1
      <4>2. f[k] = IF k = 0 THEN x ELSE Turn(down, f[k - 1])
        BY <4>1, <2>3 DEF IsLoop
      <4> QED BY <4>1, <4>2, <3>2, <2>1
    <3> QED BY <3>1, <3>2
  <2>5. IsLoop(g, j, x, down)
    BY <2>4 DEF IsLoop
  <2> QED BY <2>1, <2>5
<1> QED BY <1>2, <1>3

LEMMA PushedByLoop ==
  ASSUME NEW h, NEW e, Len(h) \in Nat
  PROVE  \E f : /\ f[0] = [h |-> Append(h, e), at |-> Len(h) + 1]
                /\ \A k \in 1..(Len(h) + 1) : f[k] = Rise(f[k - 1])
                /\ Pushed(h, e) = f[Len(h) + 1].h
<1> DEFINE n == Len(h) + 1
           x == [h |-> Append(h, e), at |-> n]
           f[k \in 0..n] == IF k = 0 THEN x ELSE Rise(f[k - 1])
<1>1. \E g : g = [k \in 0..n |-> IF k = 0 THEN x ELSE Rise(g[k - 1])]
  <2> n \in Nat
    OBVIOUS
  <2> HIDE DEF n, x
  <2>1. PICK g : IsLoop(g, n, x, FALSE)
    BY LoopsExist
  <2>2. g = [k \in 0..n |-> IF k = 0 THEN x ELSE Rise(g[k - 1])]
    BY <2>1 DEF IsLoop, Turn
  <2> QED BY <2>2
<1>2. f = [k \in 0..n |-> IF k = 0 THEN x ELSE Rise(f[k - 1])]
  BY <1>1
<1>3. Pushed(h, e) = f[n].h
  BY DEF Pushed
<1>4. f[0] = x /\ \A k \in 1..n : f[k] = Rise(f[k - 1])
  <2> n \in Nat
    OBVIOUS
  <2> HIDE DEF f, n, x
  <2> QED BY <1>2
<1> HIDE DEF f
<1> QED BY <1>3, <1>4

LEMMA PoppedByLoop ==
  ASSUME NEW h, Len(h) \in Nat \ {0}
  PROVE  LET m == Len(h) - 1 IN
         \E f : /\ f[0] = [h |-> [i \in 1..m |-> IF i = 1 THEN h[m + 1] ELSE h[i]], at |-> 1]
                /\ \A k \in 1..m : f[k] = Sink(f[k - 1])
                /\ Popped(h) = f[m].h
<1> DEFINE m == Len(h) - 1
           x == [h |-> [i \in 1..m |-> IF i = 1 THEN h[m + 1] ELSE h[i]], at |-> 1]
           f[k \in 0..m] == IF k = 0 THEN x ELSE Sink(f[k - 1])
<1>1. \E g : g = [k \in 0..m |-> IF k = 0 THEN x ELSE Sink(g[k - 1])]
  <2> m \in Nat
    OBVIOUS
  <2> HIDE DEF m, x
  <2>1. PICK g : IsLoop(g, m, x, TRUE)
    BY LoopsExist
  <2>2. g = [k \in 0..m |-> IF k = 0 THEN x ELSE Sink(g[k - 1])]
    BY <2>1 DEF IsLoop, Turn
  <2> QED BY <2>2
<1>2. f = [k \in 0..m |-> IF k = 0 THEN x ELSE Sink(f[k - 1])]
  BY <1>1
<1>3. Popped(h) = f[m].h
  BY DEF Popped
<1>4. f[0] = x /\ \A k \in 1..m : f[k] = Sink(f[k - 1])
  <2> m \in Nat
    OBVIOUS
  <2> HIDE DEF f, m, x
  <2> QED BY <1>2
<1> HIDE DEF f
<1> QED BY <1>3, <1>4

\* A state of push's loop.
Rising(s, C, n) ==
  /\ s.h \in Seq(Events) /\ Len(s.h) = n /\ s.at \in 1..n
  /\ Contents(s.h) = C /\ Distinct(s.h)
  /\ RisingOrder(s.h, s.at)

RiseOver(s) == s.at = 1 \/ s.h[s.at \div 2].trigger_tick <= s.h[s.at].trigger_tick

LEMMA ParentFacts ==
  ASSUME NEW i \in Nat, i > 1
  PROVE  i \div 2 \in Nat /\ i \div 2 >= 1 /\ i \div 2 < i
OBVIOUS

\* The swap with the parent restores the order below and owes it one level up.
LEMMA RiseOrder ==
  ASSUME NEW h \in Seq(Events), NEW at \in 2..Len(h), RisingOrder(h, at),
         h[at].trigger_tick < h[at \div 2].trigger_tick
  PROVE  RisingOrder(Swapped(h, at \div 2, at), at \div 2)
<1> DEFINE p == at \div 2
           w == Swapped(h, p, at)
<1>1. p \in 1..Len(h) /\ p < at /\ at \in 1..Len(h)
  BY ParentFacts
<1>2. /\ w \in Seq(Events) /\ Len(w) = Len(h) /\ w[at] = h[p] /\ w[p] = h[at]
      /\ \A k \in 1..Len(h) : k # p /\ k # at => w[k] = h[k]
  <2> HIDE DEF p
  <2> QED BY <1>1, SwapFacts
<1>3. \A k \in 1..Len(h) : h[k].trigger_tick \in Int
  BY EventsHaveTicks
<1>4. ASSUME NEW i \in 2..Len(w), i # p
      PROVE  w[i \div 2].trigger_tick <= w[i].trigger_tick
  <2>1. i \in 2..Len(h) /\ i \in 1..Len(h) /\ i \div 2 \in 1..Len(h) /\ i \div 2 < i
    BY <1>2, ParentFacts
  <2> HIDE DEF p, w
  <2>2. CASE i = at
    BY <1>1, <1>2, <1>3, <2>1, <2>2 DEF p
  <2>3. CASE i # at /\ i \div 2 = p
    BY <1>1, <1>2, <1>3, <1>4, <2>1, <2>3 DEF RisingOrder, p
  <2>4. CASE i # at /\ i \div 2 = at
    BY <1>1, <1>2, <1>3, <1>4, <2>1, <2>4 DEF RisingOrder, p
  <2>5. CASE i # at /\ i \div 2 # p /\ i \div 2 # at
    BY <1>1, <1>2, <1>3, <1>4, <2>1, <2>5 DEF RisingOrder
  <2> QED BY <2>2, <2>3, <2>4, <2>5
<1>5. ASSUME NEW i \in 2..Len(w), i \div 2 = p, p > 1
      PROVE  w[p \div 2].trigger_tick <= w[i].trigger_tick
  <2>1. i \in 2..Len(h) /\ i \in 1..Len(h) /\ p \in 2..Len(h)
    BY <1>1, <1>2, <1>5
  <2>2. p \div 2 \in 1..Len(h) /\ p \div 2 < p /\ i # p
    BY <1>1, <1>5, ParentFacts
  <2> HIDE DEF p, w
  <2>3. w[p \div 2] = h[p \div 2] /\ h[p \div 2].trigger_tick <= h[p].trigger_tick
    BY <1>1, <1>2, <2>1, <2>2 DEF RisingOrder
  <2>4. CASE i = at
    BY <1>1, <1>2, <1>3, <2>2, <2>3, <2>4
  <2>5. CASE i # at
    <3>1. w[i] = h[i] /\ h[p].trigger_tick <= h[i].trigger_tick
      BY <1>1, <1>2, <1>5, <2>1, <2>2, <2>5 DEF RisingOrder
    <3> QED BY <3>1, <1>1, <1>3, <2>1, <2>2, <2>3
  <2> QED BY <2>4, <2>5
<1> HIDE DEF w
<1>6. RisingOrder(w, p)
  BY <1>4, <1>5 DEF RisingOrder
<1> QED BY <1>6 DEF w

LEMMA RiseStep ==
  ASSUME NEW C, NEW n \in Nat, NEW s, Rising(s, C, n)
  PROVE  /\ Rising(Rise(s), C, n)
         /\ RiseOver(s) => Rise(s) = s
         /\ ~RiseOver(s) => Rise(s).at < s.at
<1>1. s.h \in Seq(Events) /\ Len(s.h) = n /\ s.at \in 1..n
  BY DEF Rising
<1>2. \A k \in 1..n : s.h[k].trigger_tick \in Int
  BY <1>1, EventsHaveTicks
<1>3. CASE RiseOver(s)
  <2>1. Rise(s) = s
    <3>1. CASE s.at = 1
      BY <3>1 DEF Rise
    <3>2. CASE s.at # 1
      <4>1. s.at \div 2 \in 1..n
        BY <1>1, <3>2, ParentFacts
      <4> QED BY <4>1, <3>2, <1>1, <1>2, <1>3 DEF Rise, RiseOver, Earlier
    <3> QED BY <3>1, <3>2
  <2> QED BY <2>1, <1>3
<1>4. CASE ~RiseOver(s)
  <2> DEFINE p == s.at \div 2
             w == Swapped(s.h, p, s.at)
  <2>1. s.at \in 2..n /\ p \in 1..n /\ p < s.at
    BY <1>1, <1>4, ParentFacts DEF RiseOver
  <2>2. s.h[s.at].trigger_tick < s.h[p].trigger_tick
    BY <1>2, <1>4, <2>1 DEF RiseOver
  <2>3. Rise(s) = [h |-> w, at |-> p]
    BY <2>1, <2>2, <1>1 DEF Rise, Earlier
  <2>4. w \in Seq(Events) /\ Len(w) = n /\ Contents(w) = C /\ Distinct(w)
    <3>1. p \in 1..Len(s.h) /\ s.at \in 1..Len(s.h)
      BY <1>1, <2>1
    <3> HIDE DEF p
    <3>2. w \in Seq(Events) /\ Len(w) = Len(s.h)
      BY <1>1, <3>1, SwapFacts
    <3>3. Contents(w) = Contents(s.h) /\ (Distinct(s.h) => Distinct(w))
      BY <1>1, <3>1, SwapKeeps
    <3> QED BY <1>1, <3>2, <3>3 DEF Rising
  <2>5. RisingOrder(w, p)
    BY <1>1, <2>1, <2>2, RiseOrder DEF Rising
  <2> HIDE DEF w, p
  <2> QED BY <1>4, <2>1, <2>3, <2>4, <2>5 DEF Rising
<1> QED BY <1>3, <1>4

\* What queue_push does to a heap: one event more, in order.
LEMMA PushedFacts ==
  ASSUME NEW h \in Seq(Events), Ordered(h), Distinct(h),
         NEW e \in Events, e \notin Contents(h)
  PROVE  LET q == Pushed(h, e) IN
           /\ q \in Seq(Events) /\ Len(q) = Len(h) + 1
           /\ Contents(q) = Contents(h) \cup {e}
           /\ Distinct(q) /\ Ordered(q)
<1> DEFINE n == Len(h) + 1
           C == Contents(h) \cup {e}
<1>1. n \in Nat /\ Len(h) \in Nat
  OBVIOUS
<1>2. PICK f : /\ f[0] = [h |-> Append(h, e), at |-> n]
               /\ \A k \in 1..n : f[k] = Rise(f[k - 1])
               /\ Pushed(h, e) = f[n].h
  BY <1>1, PushedByLoop
<1>3. Rising(f[0], C, n)
  <2> DEFINE a == Append(h, e)
  <2>1. /\ a \in Seq(Events) /\ Len(a) = n /\ a[n] = e
        /\ \A i \in 1..Len(h) : a[i] = h[i]
    OBVIOUS
  <2> HIDE DEF a
  <2>2. Contents(a) = C
    <3>1. \A i \in 1..n : i = n \/ i \in 1..Len(h)
      BY <1>1
    <3>2. n \in 1..n /\ \A i \in 1..Len(h) : i \in 1..n
      BY <1>1
    <3> HIDE DEF n
    <3> QED BY <2>1, <3>1, <3>2 DEF Contents
  <2>3. Distinct(a)
    <3>1. \A i \in 1..Len(h) : h[i] # e
      BY DEF Contents
    <3> QED BY <2>1, <3>1 DEF Distinct
  <2>4. RisingOrder(a, n)
    <3>1. ASSUME NEW i \in 2..n
          PROVE  /\ i \div 2 \in 1..Len(h) /\ i \div 2 < n
                 /\ i # n => i \in 2..Len(h) /\ i \in 1..Len(h)
      BY <1>1, ParentFacts
    <3>2. ASSUME NEW i \in 2..n, i # n
          PROVE  a[i \div 2].trigger_tick <= a[i].trigger_tick
      BY <2>1, <3>1, <3>2 DEF Ordered
    <3> HIDE DEF n
    <3>3. \A i \in 2..n : i \div 2 # n
      BY <1>1, <3>1
    <3> QED BY <2>1, <3>2, <3>3 DEF RisingOrder
  <2> QED BY <1>1, <1>2, <2>1, <2>2, <2>3, <2>4 DEF Rising, a
<1> HIDE DEF n, C
<1> DEFINE Good(k) == Rising(f[k], C, n) /\ (RiseOver(f[k]) \/ f[k].at <= n - k)
           Bad == {k \in 0..n : ~Good(k)}
<1>4. Good(0)
  BY <1>1, <1>3 DEF Rising
<1>5. ASSUME NEW k \in 1..n, Good(k - 1) PROVE Good(k)
  <2>1. f[k] = Rise(f[k - 1])
    BY <1>2
  <2>2. Rising(f[k], C, n)
    BY <1>1, <1>5, <2>1, RiseStep
  <2>3. CASE RiseOver(f[k - 1])
    BY <1>1, <1>5, <2>1, <2>2, <2>3, RiseStep
  <2>4. CASE ~RiseOver(f[k - 1])
    <3>1. f[k].at < f[k - 1].at
      BY <1>1, <1>5, <2>1, <2>4, RiseStep
    <3>2. f[k].at \in Int /\ f[k - 1].at \in Int
      BY <2>2, <1>5 DEF Rising
    <3> QED BY <1>1, <1>5, <2>2, <2>4, <3>1, <3>2
  <2> QED BY <2>3, <2>4
<1>6. Good(n)
  <2> SUFFICES ASSUME n \in Bad PROVE FALSE
    BY <1>1
  <2>1. PICK k \in Bad : \A l \in Bad : k <= l
    <3>1. Bad \in SUBSET Nat /\ Bad # {}
      OBVIOUS
    <3> HIDE DEF Bad
    <3> QED BY <3>1, LeastOf
  <2>2. k \in 1..n
    BY <1>1, <1>4, <2>1
  <2>3. k - 1 \in 0..n /\ k - 1 \notin Bad
    <3> HIDE DEF Good
    <3> QED BY <1>1, <2>1, <2>2
  <2> HIDE DEF Good
  <2> QED BY <1>5, <2>2, <2>3
<1>7. Rising(f[n], C, n) /\ RiseOver(f[n])
  BY <1>1, <1>6 DEF Rising
<1>8. Ordered(f[n].h)
  <2> DEFINE q == f[n].h
             at == f[n].at
  <2>1. at \in 1..n /\ Len(q) = n /\ RisingOrder(q, at)
    BY <1>7 DEF Rising
  <2>2. at = 1 \/ q[at \div 2].trigger_tick <= q[at].trigger_tick
    BY <1>7 DEF RiseOver
  <2> HIDE DEF q, at
  <2> QED BY <2>1, <2>2 DEF RisingOrder, Ordered, q
<1> QED BY <1>2, <1>7, <1>8 DEF Rising, n, C

\* A state of pop's loop.
Sinking(s, C, m) ==
  /\ s.h \in Seq(Events) /\ Len(s.h) = m /\ s.at \in 1..m
  /\ Contents(s.h) = C /\ Distinct(s.h)
  /\ SinkingOrder(s.h, s.at)

SinkOver(s) ==
  \A i \in 2..Len(s.h) : i \div 2 = s.at => s.h[s.at].trigger_tick <= s.h[i].trigger_tick

\* The child compared with is a child, and no later than the other one.
LEMMA ChildFacts ==
  ASSUME NEW h \in Seq(Events), NEW at \in 1..Len(h), 2 * at <= Len(h)
  PROVE  LET c == EarlierChild(h, Len(h), at) IN
           /\ c \in 2..Len(h) /\ c \div 2 = at /\ c > at
           /\ \A i \in 2..Len(h) : i \div 2 = at => h[c].trigger_tick <= h[i].trigger_tick
<1> DEFINE c == EarlierChild(h, Len(h), at)
<1>1. \A k \in 1..Len(h) : h[k].trigger_tick \in Int
  BY EventsHaveTicks
<1>2. c \in 2..Len(h) /\ (c = 2 * at \/ c = 2 * at + 1)
  BY DEF EarlierChild
<1>3. c \div 2 = at /\ c > at
  BY <1>2
<1>4. ASSUME NEW i \in 2..Len(h), i \div 2 = at
      PROVE  h[c].trigger_tick <= h[i].trigger_tick
  <2>1. i = 2 * at \/ i = 2 * at + 1
    BY <1>4
  <2>2. i \in 1..Len(h) /\ 2 * at \in 1..Len(h)
    OBVIOUS
  <2> QED BY <1>1, <2>1, <2>2 DEF EarlierChild, Earlier
<1> QED BY <1>2, <1>3, <1>4

\* The swap with the earlier child restores the order above and owes it one
\* level down.
LEMMA SinkOrder ==
  ASSUME NEW h \in Seq(Events), NEW at \in 1..Len(h), SinkingOrder(h, at),
         NEW c \in 2..Len(h), c \div 2 = at, c > at,
         \A i \in 2..Len(h) : i \div 2 = at => h[c].trigger_tick <= h[i].trigger_tick,
         h[c].trigger_tick < h[at].trigger_tick
  PROVE  SinkingOrder(Swapped(h, at, c), c)
<1> DEFINE w == Swapped(h, at, c)
<1>1. c \in 1..Len(h)
  OBVIOUS
<1>2. /\ w \in Seq(Events) /\ Len(w) = Len(h) /\ w[c] = h[at] /\ w[at] = h[c]
      /\ \A k \in 1..Len(h) : k # c /\ k # at => w[k] = h[k]
  BY <1>1, SwapFacts
<1>3. \A k \in 1..Len(h) : h[k].trigger_tick \in Int
  BY EventsHaveTicks
<1> HIDE DEF w
<1>4. ASSUME NEW i \in 2..Len(w), i \div 2 # c
      PROVE  w[i \div 2].trigger_tick <= w[i].trigger_tick
  <2>1. i \in 2..Len(h) /\ i \in 1..Len(h) /\ i \div 2 \in 1..Len(h) /\ i \div 2 < i
    BY <1>2, ParentFacts
  <2>2. CASE i \div 2 = at /\ i = c
    BY <1>2, <1>3, <1>1, <2>2
  <2>3. CASE i \div 2 = at /\ i # c
    BY <1>2, <1>3, <2>1, <2>3
  <2>4. CASE i \div 2 # at /\ i = at
    BY <1>1, <1>2, <1>3, <1>4, <2>1, <2>4 DEF SinkingOrder
  <2>5. CASE i \div 2 # at /\ i # at
    BY <1>1, <1>2, <1>3, <1>4, <2>1, <2>5 DEF SinkingOrder
  <2> QED BY <2>2, <2>3, <2>4, <2>5
<1>5. ASSUME NEW i \in 2..Len(w), i \div 2 = c
      PROVE  w[c \div 2].trigger_tick <= w[i].trigger_tick
  <2>1. i \in 2..Len(h) /\ i \in 1..Len(h) /\ i \div 2 < i
    BY <1>2, ParentFacts
  <2>2. i # c /\ i # at
    BY <1>5, <2>1
  <2> QED BY <1>1, <1>2, <1>3, <1>5, <2>1, <2>2 DEF SinkingOrder
<1>6. SinkingOrder(w, c)
  BY <1>4, <1>5 DEF SinkingOrder
<1> QED BY <1>6 DEF w

LEMMA SinkStep ==
  ASSUME NEW C, NEW m \in Nat, NEW s, Sinking(s, C, m)
  PROVE  /\ Sinking(Sink(s), C, m)
         /\ SinkOver(s) => Sink(s) = s
         /\ ~SinkOver(s) => Sink(s).at > s.at
<1> DEFINE c == EarlierChild(s.h, Len(s.h), s.at)
<1>1. s.h \in Seq(Events) /\ Len(s.h) = m /\ s.at \in 1..m
  BY DEF Sinking
<1>2. \A k \in 1..m : s.h[k].trigger_tick \in Int
  BY <1>1, EventsHaveTicks
<1>3. ASSUME 2 * s.at <= m
      PROVE  /\ c \in 2..m /\ c \div 2 = s.at /\ c > s.at
             /\ \A i \in 2..m : i \div 2 = s.at =>
                  s.h[c].trigger_tick <= s.h[i].trigger_tick
  BY <1>1, <1>3, ChildFacts
<1>4. Sink(s) = IF 2 * s.at <= m /\ s.h[c].trigger_tick < s.h[s.at].trigger_tick
                THEN [h |-> Swapped(s.h, s.at, c), at |-> c] ELSE s
  BY <1>1 DEF Sink, Earlier
<1> HIDE DEF c
<1>5. CASE SinkOver(s)
  <2>1. Sink(s) = s
    BY <1>1, <1>2, <1>3, <1>4, <1>5 DEF SinkOver
  <2> QED BY <2>1, <1>5
<1>6. CASE ~SinkOver(s)
  <2> DEFINE w == Swapped(s.h, s.at, c)
  <2>1. PICK i \in 2..m : i \div 2 = s.at /\ ~(s.h[s.at].trigger_tick <= s.h[i].trigger_tick)
    BY <1>1, <1>6 DEF SinkOver
  <2>2. 2 * s.at <= m /\ i \in 1..m
    BY <1>1, <2>1
  <2>3. c \in 1..m
    BY <1>3, <2>2
  <2>4. s.h[c].trigger_tick < s.h[s.at].trigger_tick
    <3>1. s.h[c].trigger_tick <= s.h[i].trigger_tick
      BY <1>3, <2>1, <2>2
    <3>2. /\ s.h[c].trigger_tick \in Int /\ s.h[i].trigger_tick \in Int
          /\ s.h[s.at].trigger_tick \in Int
      BY <1>1, <1>2, <2>2, <2>3
    <3> QED BY <2>1, <3>1, <3>2
  <2>5. Sink(s) = [h |-> w, at |-> c]
    BY <1>4, <2>2, <2>4
  <2>6. w \in Seq(Events) /\ Len(w) = Len(s.h)
    BY <1>1, <2>3, SwapFacts
  <2>7. Contents(w) = Contents(s.h) /\ (Distinct(s.h) => Distinct(w))
    BY <1>1, <2>3, SwapKeeps
  <2>8. SinkingOrder(w, c)
    BY <1>1, <1>3, <2>2, <2>4, SinkOrder DEF Sinking
  <2> HIDE DEF w
  <2>9. Sinking(Sink(s), C, m)
    BY <1>1, <2>3, <2>5, <2>6, <2>7, <2>8 DEF Sinking
  <2> QED BY <1>3, <1>6, <2>2, <2>5, <2>9
<1> QED BY <1>5, <1>6

\* What queue_pop does to a heap: the root leaves, the others stay in order.
LEMMA PoppedFacts ==
  ASSUME NEW h \in Seq(Events), Ordered(h), Distinct(h), h # <<>>
  PROVE  LET q == Popped(h) IN
           /\ q \in Seq(Events) /\ Len(q) = Len(h) - 1
           /\ Contents(q) = Contents(h) \ {h[1]}
           /\ Distinct(q) /\ Ordered(q)
<1> DEFINE m == Len(h) - 1
           C == Contents(h) \ {h[1]}
           b == [i \in 1..m |-> IF i = 1 THEN h[m + 1] ELSE h[i]]
<1>1. m \in Nat /\ Len(h) = m + 1 /\ Len(h) \in Nat \ {0}
  OBVIOUS
<1>2. PICK f : /\ f[0] = [h |-> b, at |-> 1]
               /\ \A k \in 1..m : f[k] = Sink(f[k - 1])
               /\ Popped(h) = f[m].h
  BY <1>1, PoppedByLoop
<1>3. /\ b \in Seq(Events) /\ Len(b) = m
      /\ \A i \in 1..m : b[i] = IF i = 1 THEN h[m + 1] ELSE h[i]
  <2>1. \A i \in 1..m : (IF i = 1 THEN h[m + 1] ELSE h[i]) \in Events
    BY <1>1
  <2> HIDE DEF m
  <2> QED BY <1>1, <2>1
<1> HIDE DEF b
<1>4. Contents(b) = C
  <2>1. \A i \in 1..m : b[i] \in C
    <3> SUFFICES ASSUME NEW i \in 1..m PROVE b[i] \in C
      OBVIOUS
    <3>1. 1 \in 1..Len(h) /\ i \in 1..Len(h) /\ m + 1 \in 1..Len(h) /\ m + 1 # 1
      BY <1>1
    <3> DEFINE k == IF i = 1 THEN m + 1 ELSE i
    <3>2. k \in 1..Len(h) /\ k # 1 /\ b[i] = h[k]
      BY <1>3, <3>1
    <3> HIDE DEF m, k
    <3>3. h[k] # h[1] /\ h[k] \in Contents(h)
      BY <3>1, <3>2 DEF Contents, Distinct
    <3> QED BY <3>2, <3>3
  <2>2. ASSUME NEW e \in C PROVE \E i \in 1..m : b[i] = e
    <3>1. PICK i \in 1..Len(h) : h[i] = e /\ i # 1
      BY DEF Contents
    <3>2. CASE i = m + 1
      <4>1. 1 \in 1..m
        BY <1>1, <3>1, <3>2
      <4> HIDE DEF m
      <4> QED BY <1>3, <3>1, <3>2, <4>1
    <3>3. CASE i # m + 1
      <4> HIDE DEF m
      <4>1. i \in 1..m
        BY <1>1, <3>1, <3>3
      <4> QED BY <1>3, <3>1, <4>1
    <3> QED BY <3>2, <3>3
  <2> HIDE DEF C, m
  <2> QED BY <1>3, <2>1, <2>2 DEF Contents
<1>5. Distinct(b)
  <2> SUFFICES ASSUME NEW i \in 1..m, NEW k \in 1..m, b[i] = b[k] PROVE i = k
    BY <1>3 DEF Distinct
  <2> HIDE DEF m
  <2>1. i \in 1..Len(h) /\ k \in 1..Len(h) /\ m + 1 \in 1..Len(h) /\ m + 1 # i /\ m + 1 # k
    BY <1>1
  <2> QED BY <1>3, <2>1 DEF Distinct
<1>6. CASE m = 0
  <2>1. Popped(h) = b
    <3>1. Popped(h) = f[0].h
      <4> HIDE DEF m
      <4> QED BY <1>2, <1>6
    <3> QED BY <1>2, <3>1
  <2>2. Ordered(b)
    BY <1>3, <1>6 DEF Ordered
  <2> QED BY <1>3, <1>4, <1>5, <2>1, <2>2
<1>7. CASE m # 0
  <2>1. SinkingOrder(b, 1)
    <3>1. ASSUME NEW i \in 2..m, i \div 2 # 1
          PROVE  b[i \div 2].trigger_tick <= b[i].trigger_tick
      <4>1. i \in 2..Len(h) /\ i \in 1..m /\ i \div 2 \in 1..m
        BY <1>1, ParentFacts
      <4> HIDE DEF m
      <4> QED BY <1>3, <3>1, <4>1 DEF Ordered
    <3> HIDE DEF m
    <3> QED BY <1>1, <1>3, <3>1 DEF SinkingOrder
  <2>2. Sinking(f[0], C, m)
    <3> HIDE DEF m, C
    <3> QED BY <1>1, <1>2, <1>3, <1>4, <1>5, <1>7, <2>1 DEF Sinking
  <2> HIDE DEF m, C
  <2> DEFINE Good(k) == Sinking(f[k], C, m) /\ (SinkOver(f[k]) \/ f[k].at >= k + 1)
             Bad == {k \in 0..m : ~Good(k)}
  <2>3. Good(0)
    BY <1>1, <2>2 DEF Sinking
  <2>4. ASSUME NEW k \in 1..m, Good(k - 1) PROVE Good(k)
    <3>1. f[k] = Sink(f[k - 1])
      BY <1>2
    <3>2. Sinking(f[k], C, m)
      BY <1>1, <2>4, <3>1, SinkStep
    <3>3. CASE SinkOver(f[k - 1])
      BY <1>1, <2>4, <3>1, <3>2, <3>3, SinkStep
    <3>4. CASE ~SinkOver(f[k - 1])
      <4>1. f[k].at > f[k - 1].at
        BY <1>1, <2>4, <3>1, <3>4, SinkStep
      <4>2. f[k].at \in Int /\ f[k - 1].at \in Int
        BY <3>2, <2>4 DEF Sinking
      <4> QED BY <1>1, <2>4, <3>2, <3>4, <4>1, <4>2
    <3> QED BY <3>3, <3>4
  <2>5. Good(m)
    <3> SUFFICES ASSUME m \in Bad PROVE FALSE
      BY <1>1
    <3>1. PICK k \in Bad : \A l \in Bad : k <= l
      <4>1. Bad \in SUBSET Nat /\ Bad # {}
        OBVIOUS
      <4> HIDE DEF Bad
      <4> QED BY <4>1, LeastOf
    <3>2. k \in 1..m
      BY <1>1, <2>3, <3>1
    <3>3. k - 1 \in 0..m /\ k - 1 \notin Bad
      <4> HIDE DEF Good
      <4> QED BY <1>1, <3>1, <3>2
    <3> HIDE DEF Good
    <3> QED BY <2>4, <3>2, <3>3
  <2>6. Sinking(f[m], C, m) /\ SinkOver(f[m])
    BY <1>1, <2>5 DEF Sinking
  <2>7. Ordered(f[m].h)
    <3> DEFINE q == f[m].h
               at == f[m].at
    <3>1. Len(q) = m /\ SinkingOrder(q, at)
      BY <2>6 DEF Sinking
    <3>2. \A i \in 2..Len(q) : i \div 2 = at => q[at].trigger_tick <= q[i].trigger_tick
      BY <2>6 DEF SinkOver
    <3> HIDE DEF q, at
    <3> QED BY <3>1, <3>2 DEF SinkingOrder, Ordered, q
  <2> QED BY <1>1, <1>2, <2>6, <2>7 DEF Sinking, C
<1> QED BY <1>6, <1>7

-----------------------------------------------------------------------------
(* The event queue on its own.                                             *)

LEMMA ContentsFinite ==
  ASSUME NEW h \in Seq(Events)
  PROVE  IsFiniteSet(Contents(h)) /\ Cardinality(Contents(h)) \in Nat
         /\ Cardinality(Contents(h)) <= Len(h)
<1> DEFINE D == 1..Len(h)
           f == [i \in D |-> h[i]]
<1>1. Len(h) \in Nat
  OBVIOUS
<1>2. IsFiniteSet(D) /\ Cardinality(D) = Len(h)
  BY <1>1, FS_Interval
<1>3. f \in Surjection(D, Contents(h))
  BY DEF Surjection, Contents
<1> HIDE DEF f, D
<1>4. IsFiniteSet(Contents(h)) /\ Cardinality(Contents(h)) <= Cardinality(D)
  BY <1>2, <1>3, FS_Surjection
<1> QED BY <1>2, <1>4, FS_CardinalityType

LEMMA OrderedIsHeapOrdered ==
  ASSUME NEW h \in Seq(Events)
  PROVE  (\A i \in 2..Len(h) : ~Earlier(h[i], h[i \div 2])) <=> Ordered(h)
<1>1. ASSUME NEW i \in 2..Len(h)
      PROVE  ~Earlier(h[i], h[i \div 2])
               <=> h[i \div 2].trigger_tick <= h[i].trigger_tick
  <2>1. i \in 1..Len(h) /\ i \div 2 \in 1..Len(h)
    BY ParentFacts
  <2>2. h[i].trigger_tick \in Int /\ h[i \div 2].trigger_tick \in Int
    BY <2>1, EventsHaveTicks
  <2> QED BY <2>2 DEF Earlier
<1> QED BY <1>1 DEF Ordered

IdsDistinct(h) == \A i, k \in 1..Len(h) : h[i].id = h[k].id => i = k

\* Ids stay apart as long as the events do, whatever their places.
LEMMA IdsByContents ==
  ASSUME NEW h \in Seq(Events)
  PROVE  IdsDistinct(h) <=>
           Distinct(h) /\ \A e, f \in Contents(h) : e.id = f.id => e = f
BY DEF IdsDistinct, Distinct, Contents

\* The array is well-typed, ordered, and holds each id once.
HeapInv == HeapTypeOK /\ HeapOrdered /\ IdsDistinct(heap)

\* An operation keeps the invariant and is an operation of the priority queue.
HeapStep == HeapInv' /\ (PQ!PQNext \/ UNCHANGED {heap[i] : i \in 1..Len(heap)})

LEMMA SameCardinality ==
  ASSUME NEW S
  PROVE  PQ!Cardinality(S) = Cardinality(S)
BY Zenon DEF PQ!Cardinality, Cardinality

LEMMA PushStep ==
  ASSUME HeapInv, NEW e \in Events, e.id \notin Queued, Push(e)
  PROVE  HeapStep
<1>1. /\ heap \in Seq(Events) /\ Len(heap) < QueueCapacity /\ Len(heap) \in Nat
      /\ Ordered(heap) /\ Distinct(heap)
      /\ \A d, f \in Contents(heap) : d.id = f.id => d = f
      /\ heap' = Pushed(heap, e)
  BY OrderedIsHeapOrdered, IdsByContents, HeapAssumption
     DEF HeapInv, HeapTypeOK, HeapOrdered, Push, Full
<1>2. e \notin Contents(heap) /\ \A d \in Contents(heap) : d.id # e.id
  BY DEF Queued, Contents
<1>3. /\ heap' \in Seq(Events) /\ Len(heap') = Len(heap) + 1
      /\ Contents(heap') = Contents(heap) \cup {e}
      /\ Distinct(heap') /\ Ordered(heap')
  BY <1>1, <1>2, PushedFacts
<1>4. IdsDistinct(heap')
  <2>1. \A d, f \in Contents(heap') : d.id = f.id => d = f
    BY <1>1, <1>2, <1>3
  <2> QED BY <1>3, <2>1, IdsByContents
<1>5. HeapInv'
  BY <1>1, <1>3, <1>4, OrderedIsHeapOrdered, HeapAssumption
     DEF HeapInv, HeapTypeOK, HeapOrdered
<1>6. PQ!Insert(e)
  <2>1. PQ!Cardinality(Contents(heap)) < QueueCapacity
    BY <1>1, ContentsFinite, SameCardinality, HeapAssumption
  <2> QED BY <1>2, <1>3, <2>1 DEF PQ!Insert, Contents
<1> QED BY <1>5, <1>6 DEF HeapStep, PQ!PQNext

LEMMA PopStep ==
  ASSUME HeapInv, Pop
  PROVE  HeapStep
<1>1. /\ heap \in Seq(Events) /\ Len(heap) <= QueueCapacity /\ Len(heap) \in Nat
      /\ Ordered(heap) /\ Distinct(heap) /\ heap # <<>>
      /\ \A d, f \in Contents(heap) : d.id = f.id => d = f
      /\ heap' = Popped(heap)
  BY OrderedIsHeapOrdered, IdsByContents, HeapAssumption
     DEF HeapInv, HeapTypeOK, HeapOrdered, Pop
<1>2. /\ heap' \in Seq(Events) /\ Len(heap') = Len(heap) - 1
      /\ Contents(heap') = Contents(heap) \ {heap[1]}
      /\ Distinct(heap') /\ Ordered(heap')
  BY <1>1, PoppedFacts
<1>3. IdsDistinct(heap')
  <2>1. \A d, f \in Contents(heap') : d.id = f.id => d = f
    BY <1>1, <1>2
  <2> QED BY <1>2, <2>1, IdsByContents
<1>4. HeapInv'
  <2>1. Len(heap') <= QueueCapacity
    BY <1>1, <1>2, HeapAssumption
  <2>2. HeapOrdered'
    BY <1>2, OrderedIsHeapOrdered DEF HeapOrdered
  <2> QED BY <1>2, <1>3, <2>1, <2>2 DEF HeapInv, HeapTypeOK
<1>5. PQ!RemoveEarliest
  <2>1. 1 \in 1..Len(heap)
    BY <1>1
  <2>2. heap[1] \in Contents(heap)
    BY <2>1 DEF Contents
  <2>3. \A f \in Contents(heap) : heap[1].trigger_tick <= f.trigger_tick
    BY <1>1, RootIsEarliest DEF Contents
  <2> QED BY <1>2, <2>2, <2>3 DEF PQ!RemoveEarliest, Contents
<1> QED BY <1>4, <1>5 DEF HeapStep, PQ!PQNext

LEMMA ClearStep ==
  ASSUME HeapInv, Clear
  PROVE  HeapStep
<1>1. heap' = <<>> /\ Len(<<>>) = 0
  BY DEF Clear
<1>2. HeapInv'
  BY <1>1, HeapAssumption DEF HeapInv, HeapTypeOK, HeapOrdered, IdsDistinct
<1>3. PQ!Empty
  BY <1>1 DEF PQ!Empty
<1> QED BY <1>2, <1>3 DEF HeapStep, PQ!PQNext

\* Every operation of the queue, and doing nothing.
LEMMA HeapNextStep ==
  ASSUME HeapInv, [HeapNext]_heap
  PROVE  HeapStep
<1>1. ASSUME NEW e \in Events, e.id \notin Queued, Push(e) PROVE HeapStep
  BY <1>1, PushStep
<1>2. CASE Pop
  BY <1>2, PopStep
<1>3. CASE Clear
  BY <1>3, ClearStep
<1>4. CASE UNCHANGED heap
  BY <1>4 DEF HeapStep, HeapInv, HeapTypeOK, HeapOrdered, IdsDistinct
<1> QED BY <1>1, <1>2, <1>3, <1>4 DEF HeapNext

LEMMA HeapInvInitially == HeapInit => HeapInv
BY HeapAssumption DEF HeapInit, HeapInv, HeapTypeOK, HeapOrdered, IdsDistinct

\* The order that queue_push restores on the way up and queue_pop on the way
\* down holds after every operation, for every capacity (queue.c:14-66).
THEOREM HeapStaysOrdered == HeapSpec => [](HeapTypeOK /\ HeapOrdered)
<1>1. HeapInv /\ [HeapNext]_heap => HeapInv'
  BY HeapNextStep DEF HeapStep
<1>2. HeapInv => HeapTypeOK /\ HeapOrdered
  BY DEF HeapInv
<1> QED BY <1>1, <1>2, HeapInvInitially, PTL DEF HeapSpec

\* The array with its two loops implements the bounded priority queue: what
\* leaves it, short of a clear, is an event with the least trigger tick.
THEOREM HeapImplementsPriorityQueue == HeapSpec => ImplementsPriorityQueue
<1>1. HeapInit => PQ!PQInit
  BY DEF HeapInit, PQ!PQInit
<1>2. HeapInv /\ [HeapNext]_heap
        => HeapInv' /\ [PQ!PQNext]_{heap[i] : i \in 1..Len(heap)}
  BY HeapNextStep DEF HeapStep
<1> QED BY <1>1, <1>2, HeapInvInitially, PTL
        DEF HeapSpec, ImplementsPriorityQueue, PQ!PQSpec

-----------------------------------------------------------------------------
(* The scheduler around the queue.                                         *)

\* A tick is a tick again after any sum, and is the sum when that fits.
LEMMA WrapFacts ==
  ASSUME NEW x \in Int
  PROVE  /\ Wrap(x) \in Ticks
         /\ x \in -HalfRange..(HalfRange - 1) => Wrap(x) = x
<1>1. HalfRange \in Nat \ {0} /\ -HalfRange..(HalfRange - 1) \subseteq Ticks
  BY McuAssumption
<1>2. Wrap(x) \in -HalfRange..(HalfRange - 1)
  BY <1>1 DEF Wrap
<1>3. x \in -HalfRange..(HalfRange - 1) => Wrap(x) = x
  BY <1>1 DEF Wrap
<1> QED BY <1>1, <1>2, <1>3

Records == [mode : FwModes, link : {"UP"}, queue_depth : 0..DepthMax,
            scheduler : {"IDLE", "RUNNING"}]

\* What the scalar variables hold; the servos are on just outside SAFE.
ScalarInv ==
  /\ isSafe \in BOOLEAN /\ servosEnabled = ~isSafe
  /\ lastFault \in Faults /\ result \in Results
  /\ pulse \in {NoLane} \cup Lanes
  /\ runtime \in Records
  /\ encoderTicks \in -MaxTravel..MaxTravel

\* The queue holds the queued jobs, each in one event, and no job to come.
JobsInv ==
  /\ jobs \in 0..MaxJobs /\ fate \in [1..MaxJobs -> Fates]
  /\ \A e \in Contents(heap) :
       e.id.job \in 1..MaxJobs /\ e.id.lane \in Lanes /\ fate[e.id.job] = "queued"
  /\ \A e, f \in Contents(heap) : e.id.job = f.id.job => e = f
  /\ \A j \in 1..MaxJobs : fate[j] = "queued" => \E e \in Contents(heap) : e.id.job = j
  /\ \A j \in 1..MaxJobs : j > jobs => fate[j] = "new"

\* What is queued was queued since the last entry into SAFE.
EpochInv ==
  /\ epoch \in Nat /\ epochOf \in [1..MaxJobs -> Nat]
  /\ SafeFlushesEverything

QueueInv == HeapInv /\ JobsInv /\ EpochInv
McuInv == QueueInv /\ ScalarInv

\* An operation on the queue keeps its invariant, and is one of EventHeap's.
QueueStep == QueueInv' /\ [HeapNext]_heap

LEMMA HeapContents ==
  ASSUME HeapInv
  PROVE  heap \in Seq(Events) /\ Ordered(heap) /\ Distinct(heap) /\ Len(heap) \in Nat
BY OrderedIsHeapOrdered, IdsByContents DEF HeapInv, HeapTypeOK, HeapOrdered

\* scheduler_schedule and scheduler_enqueue, when they accept.
LEMMA AcceptStep ==
  ASSUME QueueInv, NEW lane \in Lanes, NEW tick \in Int, ~Full(heap), Accept(lane, tick)
  PROVE  QueueStep
<1> DEFINE e == [id |-> [job |-> jobs + 1, lane |-> lane], trigger_tick |-> Wrap(tick)]
<1>1. jobs + 1 \in 1..MaxJobs /\ jobs \in 0..MaxJobs
  BY McuAssumption DEF QueueInv, JobsInv, Accept
<1>2. e \in Events /\ e.id.job = jobs + 1 /\ e.id.lane = lane
  <2>1. [job |-> jobs + 1, lane |-> lane] \in Ids
    BY <1>1, McuAssumption
  <2> QED BY <2>1, WrapFacts DEF Events
<1>3. fate[jobs + 1] = "new"
  BY <1>1 DEF QueueInv, JobsInv
<1>4. \A f \in Contents(heap) : f.id.job # jobs + 1
  BY <1>3 DEF QueueInv, JobsInv
<1>5. Push(e)
  BY DEF Push, Accept
<1> HIDE DEF e
<1>6. e.id \notin Queued
  BY <1>2, <1>4 DEF Queued, Contents
<1>7. HeapInv' /\ HeapNext
  BY <1>2, <1>5, <1>6, PushStep DEF HeapStep, QueueInv, HeapNext
<1>8. Contents(heap') = Contents(heap) \cup {e}
  <2>1. heap \in Seq(Events) /\ Ordered(heap) /\ Distinct(heap)
    BY HeapContents DEF QueueInv
  <2>2. e \notin Contents(heap)
    BY <1>2, <1>4
  <2> QED BY <1>2, <1>5, <2>1, <2>2, PushedFacts DEF Push
<1>9. /\ jobs' = jobs + 1
      /\ fate' = [fate EXCEPT ![jobs + 1] = "queued"]
      /\ epochOf' = [epochOf EXCEPT ![jobs + 1] = epoch] /\ epoch' = epoch
  BY DEF Accept
<1>10. JobsInv'
  <2>1. fate' \in [1..MaxJobs -> Fates]
    BY <1>9 DEF Fates, QueueInv, JobsInv
  <2>2. \A f \in Contents(heap)' :
          f.id.job \in 1..MaxJobs /\ f.id.lane \in Lanes /\ fate'[f.id.job] = "queued"
    BY <1>1, <1>2, <1>8, <1>9 DEF QueueInv, JobsInv
  <2>3. \A d, f \in Contents(heap)' : d.id.job = f.id.job => d = f
    BY <1>2, <1>4, <1>8 DEF QueueInv, JobsInv
  <2>4. \A j \in 1..MaxJobs : fate'[j] = "queued" => \E f \in Contents(heap)' : f.id.job = j
    BY <1>1, <1>2, <1>8, <1>9 DEF QueueInv, JobsInv
  <2>5. \A j \in 1..MaxJobs : j > jobs' => fate'[j] = "new"
    BY <1>1, <1>9, McuAssumption DEF QueueInv, JobsInv
  <2>6. jobs' \in 0..MaxJobs
    BY <1>1, <1>9, McuAssumption
  <2> QED BY <2>1, <2>2, <2>3, <2>4, <2>5, <2>6 DEF JobsInv
<1>11. EpochInv'
  BY <1>1, <1>9 DEF QueueInv, JobsInv, EpochInv, SafeFlushesEverything
<1> QED BY <1>7, <1>10, <1>11 DEF QueueStep, QueueInv

\* queue_clear, by RESET_QUEUE or by an entry into SAFE.
LEMMA ClearQueueStep ==
  ASSUME QueueInv, ClearQueue, UNCHANGED <<jobs, epochOf>>, epoch' \in Nat
  PROVE  QueueStep
<1>1. HeapInv' /\ HeapNext
  BY ClearStep DEF HeapStep, QueueInv, ClearQueue, HeapNext
<1>2. heap' = <<>> /\ Contents(heap') = {}
  BY DEF ClearQueue, Clear, Contents
<1>3. /\ fate' \in [1..MaxJobs -> Fates]
      /\ \A j \in 1..MaxJobs : fate'[j] # "queued" /\ (fate[j] = "new" => fate'[j] = "new")
  BY DEF ClearQueue, QueueInv, JobsInv, Fates
<1>4. JobsInv'
  BY <1>2, <1>3 DEF QueueInv, JobsInv
<1>5. EpochInv'
  BY <1>3 DEF QueueInv, EpochInv, SafeFlushesEverything
<1> QED BY <1>1, <1>4, <1>5 DEF QueueStep, QueueInv

\* queue_pop, by the dispatch step or the drain.
LEMMA PopRootStep ==
  ASSUME QueueInv, NEW f \in Fates \ {"queued"}, PopRoot(f)
  PROVE  QueueStep
<1>1. HeapInv' /\ HeapNext
  BY PopStep DEF HeapStep, QueueInv, PopRoot, HeapNext
<1>2. heap \in Seq(Events) /\ Ordered(heap) /\ Distinct(heap) /\ heap # <<>>
  BY HeapContents DEF QueueInv, PopRoot, Pop
<1>3. heap[1] \in Contents(heap)
  <2>1. 1 \in 1..Len(heap)
    BY <1>2
  <2> QED BY <2>1 DEF Contents
<1>4. Contents(heap') = Contents(heap) \ {heap[1]}
  BY <1>2, PoppedFacts DEF PopRoot, Pop
<1>5. /\ fate' = [fate EXCEPT ![heap[1].id.job] = f]
      /\ jobs' = jobs /\ epochOf' = epochOf /\ epoch' = epoch
  BY DEF PopRoot
<1>6. JobsInv'
  <2>1. heap[1].id.job \in 1..MaxJobs /\ fate[heap[1].id.job] = "queued"
    BY <1>3 DEF QueueInv, JobsInv
  <2>2. heap[1].id.job <= jobs
    BY <2>1, McuAssumption DEF QueueInv, JobsInv
  <2>3. fate' \in [1..MaxJobs -> Fates]
    BY <1>5 DEF QueueInv, JobsInv
  <2>4. \A e \in Contents(heap)' :
          e.id.job \in 1..MaxJobs /\ e.id.lane \in Lanes /\ fate'[e.id.job] = "queued"
    BY <1>3, <1>4, <1>5 DEF QueueInv, JobsInv
  <2>5. \A d, e \in Contents(heap)' : d.id.job = e.id.job => d = e
    BY <1>4 DEF QueueInv, JobsInv
  <2>6. \A j \in 1..MaxJobs : fate'[j] = "queued" => \E e \in Contents(heap)' : e.id.job = j
    BY <1>4, <1>5, <2>1 DEF QueueInv, JobsInv
  <2>7. \A j \in 1..MaxJobs : j > jobs' => fate'[j] = "new"
    BY <1>5, <2>1, <2>2 DEF QueueInv, JobsInv
  <2> QED BY <1>5, <2>3, <2>4, <2>5, <2>6, <2>7 DEF QueueInv, JobsInv
<1>7. EpochInv'
  BY <1>5 DEF QueueInv, JobsInv, EpochInv, SafeFlushesEverything
<1> QED BY <1>1, <1>6, <1>7 DEF QueueStep, QueueInv

LEMMA QueueKept ==
  ASSUME QueueInv, UNCHANGED <<heap, historyVars>>
  PROVE  QueueStep
BY DEF QueueStep, QueueInv, HeapInv, HeapTypeOK, HeapOrdered, JobsInv, EpochInv,
       SafeFlushesEverything, historyVars

\* safety_enter_safe.
LEMMA EnterSafeStep ==
  ASSUME McuInv, NEW reason \in Faults, EnterSafe(reason)
  PROVE  QueueStep /\ isSafe' = TRUE /\ servosEnabled' = FALSE /\ lastFault' \in Faults
<1>1. epoch' \in Nat
  BY DEF EnterSafe, McuInv, QueueInv, EpochInv
<1>2. QueueStep
  BY <1>1, ClearQueueStep DEF EnterSafe, McuInv
<1> QED BY <1>2 DEF EnterSafe

\* The state record a command answers with.
LEMMA SnapshotType ==
  ASSUME NEW h, Len(h) \in Nat, NEW m \in FwModes
  PROVE  Snapshot(h, "UP", m) \in Records
<1>1. Depth(h) \in 0..DepthMax
  BY McuAssumption DEF Depth
<1> QED BY <1>1 DEF Snapshot, Records

\* A step keeps the invariant, is one of EventHeap's on the queue, and
\* actuates as it should.
ActuatesSoundly ==
  \A i \in 1..Len(heap) :
    fate'[heap[i].id.job] = "executed" =>
      /\ ~isSafe /\ servosEnabled
      /\ \A k \in 1..Len(heap) : ~Earlier(heap[k], heap[i])

McuStep == QueueStep /\ ScalarInv' /\ ActuatesSoundly

\* Only the dispatch step makes a queued job an executed one.
LEMMA NoActuation ==
  ASSUME QueueInv,
         \A j \in 1..MaxJobs : fate[j] = "queued" => fate'[j] # "executed"
  PROVE  ActuatesSoundly
<1>1. \A i \in 1..Len(heap) : heap[i] \in Contents(heap)
  BY DEF Contents
<1> QED BY <1>1 DEF ActuatesSoundly, QueueInv, JobsInv

LEMMA FaultStep ==
  ASSUME McuInv, NEW reason \in FaultReasons, Fault(reason)
  PROVE  McuStep
<1>1. QueueStep /\ isSafe' = TRUE /\ servosEnabled' = FALSE /\ lastFault' \in Faults
  BY EnterSafeStep DEF Fault, Faults
<1>2. ScalarInv'
  BY <1>1 DEF McuInv, ScalarInv, Fault, commandVars, outputVars
<1>3. ActuatesSoundly
  BY NoActuation DEF McuInv, QueueInv, JobsInv, Fault, EnterSafe, ClearQueue
<1> QED BY <1>1, <1>2, <1>3 DEF McuStep

LEMMA ScheduleStep ==
  ASSUME McuInv, NEW lane \in DOMAIN LaneComp, NEW position \in Positions,
         Schedule(lane, position)
  PROVE  McuStep
<1> DEFINE tick == encoderTicks + position * TicksPerMm + LaneComp[lane]
<1>1. UNCHANGED <<encoderTicks, commandVars, outputVars>>
  BY DEF Schedule
<1>2. CASE EnterSafe("QUEUE_OVERFLOW")
  <2>1. QueueStep /\ isSafe' = TRUE /\ servosEnabled' = FALSE /\ lastFault' \in Faults
    BY <1>2, EnterSafeStep DEF Faults
  <2>2. ScalarInv'
    BY <1>1, <2>1 DEF McuInv, ScalarInv, commandVars, outputVars
  <2>3. ActuatesSoundly
    BY <1>2, NoActuation DEF McuInv, QueueInv, JobsInv, EnterSafe, ClearQueue
  <2> QED BY <2>1, <2>2, <2>3 DEF McuStep
<1>3. CASE ~Full(heap) /\ Accept(lane, tick) /\ UNCHANGED safetyVars
  <2>1. tick \in Int /\ lane \in Lanes
    BY McuAssumption DEF McuInv, ScalarInv, Lanes
  <2> HIDE DEF tick
  <2>2. QueueStep
    BY <1>3, <2>1, AcceptStep DEF McuInv
  <2>3. ScalarInv'
    BY <1>1, <1>3 DEF McuInv, ScalarInv, commandVars, outputVars, safetyVars
  <2>4. ActuatesSoundly
    BY <1>3, NoActuation DEF McuInv, QueueInv, JobsInv, Accept
  <2> QED BY <2>2, <2>3, <2>4 DEF McuStep
<1> QED BY <1>2, <1>3 DEF Schedule

LEMMA DequeueStep ==
  ASSUME McuInv, Dequeue
  PROVE  McuStep
<1>1. QueueStep
  BY PopRootStep DEF McuInv, Dequeue, Fates
<1>2. ScalarInv'
  BY DEF Dequeue, McuInv, ScalarInv, safetyVars, commandVars, outputVars
<1>3. ActuatesSoundly
  BY NoActuation DEF McuInv, QueueInv, JobsInv, Dequeue, PopRoot
<1> QED BY <1>1, <1>2, <1>3 DEF McuStep

LEMMA DispatchStep ==
  ASSUME McuInv, NEW now \in DispatchTicks, Dispatch(now)
  PROVE  McuStep
<1>1. UNCHANGED <<safetyVars, encoderTicks, commandVars>>
  BY DEF Dispatch
<1>2. ASSUME result' \in Results, UNCHANGED <<heap, pulse, historyVars>>
      PROVE  McuStep
  <2>1. QueueStep
    BY <1>2, QueueKept DEF McuInv
  <2>2. ScalarInv'
    BY <1>1, <1>2 DEF McuInv, ScalarInv, safetyVars, commandVars
  <2>3. ActuatesSoundly
    BY <1>2, NoActuation DEF McuInv, historyVars
  <2> QED BY <2>1, <2>2, <2>3 DEF McuStep
<1>3. ASSUME PopRoot("missed"), result' = "MISSED_WINDOW", UNCHANGED pulse
      PROVE  McuStep
  <2>1. QueueStep
    BY <1>3, PopRootStep DEF McuInv, Fates
  <2>2. ScalarInv'
    BY <1>1, <1>3 DEF McuInv, ScalarInv, safetyVars, commandVars, Results
  <2>3. ActuatesSoundly
    BY <1>3, NoActuation DEF McuInv, QueueInv, JobsInv, PopRoot
  <2> QED BY <2>1, <2>2, <2>3 DEF McuStep
<1>4. ASSUME ~isSafe, PopRoot("executed"), result' = "EXECUTED", pulse' = heap[1].id.lane
      PROVE  McuStep
  <2>1. QueueStep
    BY <1>4, PopRootStep DEF McuInv, Fates
  <2>2. heap \in Seq(Events) /\ Ordered(heap) /\ heap # <<>>
    BY <1>4, HeapContents DEF McuInv, QueueInv, PopRoot, Pop
  <2>3. 1 \in 1..Len(heap) /\ \A i \in 1..Len(heap) : heap[i] \in Contents(heap)
    BY <2>2 DEF Contents
  <2>4. ScalarInv'
    <3>1. pulse' \in Lanes
      BY <1>4, <2>3 DEF McuInv, QueueInv, JobsInv
    <3> QED BY <1>1, <1>4, <3>1 DEF McuInv, ScalarInv, safetyVars, commandVars, Results
  <2>5. ActuatesSoundly
    <3> SUFFICES ASSUME NEW i \in 1..Len(heap), fate'[heap[i].id.job] = "executed"
                 PROVE  /\ ~isSafe /\ servosEnabled
                        /\ \A k \in 1..Len(heap) : ~Earlier(heap[k], heap[i])
      BY DEF ActuatesSoundly
    <3>1. heap[i].id.job = heap[1].id.job
      BY <1>4, <2>3 DEF McuInv, QueueInv, JobsInv, PopRoot
    <3>2. heap[i] = heap[1]
      BY <2>3, <3>1 DEF McuInv, QueueInv, JobsInv
    <3>3. ASSUME NEW k \in 1..Len(heap) PROVE ~Earlier(heap[k], heap[i])
      <4>1. heap[1].trigger_tick <= heap[k].trigger_tick
        BY <2>2, RootIsEarliest
      <4>2. heap[1].trigger_tick \in Int /\ heap[k].trigger_tick \in Int
        BY <2>2, <2>3, EventsHaveTicks
      <4> QED BY <3>2, <4>1, <4>2 DEF Earlier
    <3> QED BY <1>4, <3>3 DEF McuInv, ScalarInv
  <2> QED BY <2>1, <2>4, <2>5 DEF McuStep
<1> QED BY <1>2, <1>3, <1>4 DEF Dispatch, Results

\* fw_dispatch_command: what a command leaves of the state record.
LEMMA RespondStep ==
  ASSUME McuInv, NEW status, NEW state \in Records, Respond(status, state)
  PROVE  ScalarInv'
BY DEF McuInv, ScalarInv, Respond, safetyVars, outputVars

LEMMA SchedStep ==
  ASSUME McuInv, NEW lane \in SlotLanes, NEW position \in SlotPositions,
         CmdSched(lane, position)
  PROVE  McuStep
<1>1. runtime.link = "UP" /\ runtime.mode \in FwModes
  BY DEF McuInv, ScalarInv, Records
<1>2. Len(heap) \in Nat
  BY HeapContents DEF McuInv, QueueInv
<1>3. ASSUME Respond("QUEUE_FULL", Snapshot(heap, runtime.link, runtime.mode)),
             UNCHANGED <<heap, historyVars>>
      PROVE  McuStep
  <2>1. QueueStep
    BY <1>3, QueueKept DEF McuInv
  <2>2. ScalarInv'
    BY <1>1, <1>2, <1>3, SnapshotType, RespondStep
  <2>3. ActuatesSoundly
    BY <1>3, NoActuation DEF McuInv, historyVars
  <2> QED BY <2>1, <2>2, <2>3 DEF McuStep
<1>4. ASSUME ~Full(heap), Accept(lane, position),
             Respond("OK", Snapshot(heap', runtime.link, runtime.mode))
      PROVE  McuStep
  <2>1. position \in Int /\ lane \in Lanes
    BY McuAssumption DEF Lanes
  <2>2. QueueStep
    BY <1>4, <2>1, AcceptStep DEF McuInv
  <2>3. Len(heap') \in Nat
    BY <2>2 DEF QueueStep, QueueInv, HeapInv, HeapTypeOK
  <2>4. ScalarInv'
    BY <1>1, <1>4, <2>3, SnapshotType, RespondStep
  <2>5. ActuatesSoundly
    BY <1>4, NoActuation DEF McuInv, QueueInv, JobsInv, Accept
  <2> QED BY <2>2, <2>4, <2>5 DEF McuStep
<1> QED BY <1>3, <1>4 DEF CmdSched

LEMMA ResetQueueStep ==
  ASSUME McuInv, CmdResetQueue
  PROVE  McuStep
<1>1. QueueStep
  BY ClearQueueStep DEF McuInv, QueueInv, EpochInv, CmdResetQueue
<1>2. ScalarInv'
  <2>1. Snapshot(<<>>, runtime.link, runtime.mode) \in Records
    BY SnapshotType DEF McuInv, ScalarInv, Records
  <2> QED BY <2>1, RespondStep DEF CmdResetQueue
<1>3. ActuatesSoundly
  BY NoActuation DEF McuInv, QueueInv, JobsInv, CmdResetQueue, ClearQueue
<1> QED BY <1>1, <1>2, <1>3 DEF McuStep

\* Every other command, the latch and the encoder leave the queue alone.
LEMMA QuietStep ==
  ASSUME McuInv,
         \/ ClearSafe \/ EncoderReset \/ \E direction \in {-1, 1} : EncoderTick(direction)
         \/ CmdHello \/ CmdHeartbeat \/ CmdSetMode \/ CmdGetState \/ CmdUnknown
         \/ UNCHANGED mcuVars
  PROVE  McuStep
<1>1. UNCHANGED <<heap, historyVars>>
  BY DEF ClearSafe, EncoderReset, EncoderTick, CmdHello, CmdHeartbeat, CmdSetMode,
         CmdGetState, CmdUnknown, mcuVars
<1>2. QueueStep
  BY <1>1, QueueKept DEF McuInv
<1>3. ActuatesSoundly
  BY <1>1, NoActuation DEF McuInv, historyVars
<1>4. ScalarInv'
  <2>1. runtime \in Records /\ Snapshot(heap, runtime.link, runtime.mode) \in Records
    BY HeapContents, SnapshotType DEF McuInv, QueueInv, ScalarInv, Records
  <2>2. CASE ClearSafe
    BY <2>2 DEF ClearSafe, McuInv, ScalarInv, Faults, commandVars, outputVars
  <2>3. CASE EncoderReset
    BY <2>3, McuAssumption DEF EncoderReset, McuInv, ScalarInv, safetyVars, commandVars, outputVars
  <2>4. CASE \E direction \in {-1, 1} : EncoderTick(direction)
    BY <2>4 DEF EncoderTick, McuInv, ScalarInv, safetyVars, commandVars, outputVars
  <2>5. CASE CmdHello \/ CmdHeartbeat
    <3>1. [runtime EXCEPT !.link = "UP"] \in Records
      BY <2>1 DEF Records
    <3> QED BY <2>5, <3>1, RespondStep DEF CmdHello, CmdHeartbeat
  <2>6. CASE CmdSetMode
    <3>1. \A m \in FwModes : [runtime EXCEPT !.mode = m] \in Records
      BY <2>1 DEF Records
    <3> QED BY <2>1, <2>6, <3>1, RespondStep DEF CmdSetMode
  <2>7. CASE CmdGetState \/ CmdUnknown
    BY <2>1, <2>7, RespondStep DEF CmdGetState, CmdUnknown
  <2>8. CASE UNCHANGED mcuVars
    BY <2>8 DEF mcuVars, McuInv, ScalarInv, safetyVars, commandVars, outputVars
  <2> QED BY <2>2, <2>3, <2>4, <2>5, <2>6, <2>7, <2>8
<1> QED BY <1>2, <1>3, <1>4 DEF McuStep

LEMMA McuNextStep ==
  ASSUME McuInv, [McuNext]_mcuVars
  PROVE  McuStep
BY FaultStep, ScheduleStep, DequeueStep, DispatchStep, SchedStep, ResetQueueStep, QuietStep
   DEF McuNext

LEMMA McuInvInitially == McuInit => McuInv
<1> SUFFICES ASSUME McuInit PROVE McuInv
  OBVIOUS
<1>1. HeapInv /\ Contents(heap) = {} /\ heap = <<>>
  BY HeapInvInitially DEF McuInit, HeapInit, Contents
<1>2. JobsInv
  BY <1>1, McuAssumption DEF McuInit, JobsInv, Fates
<1>3. EpochInv
  BY McuAssumption DEF McuInit, EpochInv, SafeFlushesEverything
<1>4. ScalarInv
  <2>1. Snapshot(<<>>, "UP", "SAFE") \in Records
    BY SnapshotType DEF FwModes
  <2>2. isSafe \in BOOLEAN /\ servosEnabled = ~isSafe
    BY Zenon DEF McuInit
  <2> QED BY <2>1, <2>2, McuAssumption DEF McuInit, ScalarInv, Faults, Results
<1> QED BY <1>1, <1>2, <1>3, <1>4 DEF McuInv, QueueInv

LEMMA McuInvAlways == McuSpec => []McuInv
<1>1. McuInv /\ [McuNext]_mcuVars => McuInv'
  BY McuNextStep DEF McuStep, QueueStep, McuInv
<1> QED BY <1>1, McuInvInitially, PTL DEF McuSpec

-----------------------------------------------------------------------------
\* The scheduler uses the queue only through its operations, and never inserts
\* an event it already holds (scheduler.c, safety.c).
THEOREM McuUsesTheQueue == McuSpec => HeapSpec
<1>1. McuInv /\ [McuNext]_mcuVars => [HeapNext]_heap
  BY McuNextStep DEF McuStep, QueueStep
<1>2. McuInit => HeapInit
  BY DEF McuInit
<1> QED BY <1>1, <1>2, McuInvAlways, PTL DEF McuSpec, HeapSpec

\* So the queue of the firmware as a whole is the bounded priority queue.
THEOREM McuImplementsPriorityQueue == McuSpec => ImplementsPriorityQueue
BY McuUsesTheQueue, HeapImplementsPriorityQueue, PTL

\* No job is lost between the queue and its fate, and none is queued twice.
THEOREM EveryJobHasOneFate == McuSpec => []OneFatePerJob
<1>1. McuInv => OneFatePerJob
  <2> SUFFICES ASSUME McuInv PROVE OneFatePerJob
    OBVIOUS
  <2>1. McuTypeOK
    BY DEF McuInv, QueueInv, HeapInv, JobsInv, ScalarInv, Records, McuTypeOK
  <2>2. \A i \in 1..Len(heap) : heap[i] \in Contents(heap)
    BY DEF Contents
  <2>3. {heap[i].id.job : i \in 1..Len(heap)} = {e.id.job : e \in Contents(heap)}
    BY DEF Contents
  <2>4. {e.id.job : e \in Contents(heap)} = {j \in 1..MaxJobs : fate[j] = "queued"}
    BY DEF McuInv, QueueInv, JobsInv
  <2>5. \A i, k \in 1..Len(heap) : heap[i].id.job = heap[k].id.job => i = k
    BY <2>2, HeapContents DEF McuInv, QueueInv, JobsInv, Distinct
  <2> QED BY <2>1, <2>3, <2>4, <2>5 DEF OneFatePerJob
<1> QED BY <1>1, McuInvAlways, PTL

\* An entry into SAFE leaves nothing behind that a later clear could let run.
THEOREM SafeAlwaysFlushes == McuSpec => []SafeFlushesEverything
<1>1. McuInv => SafeFlushesEverything
  BY DEF McuInv, QueueInv, EpochInv
<1> QED BY <1>1, McuInvAlways, PTL

\* What is actuated is an earliest job, outside SAFE, with the servos on.
THEOREM ActuationIsAlwaysSound == McuSpec => ActuationIsSound
<1>1. McuInv /\ [McuNext]_mcuVars => ActuatesSoundly
  BY McuNextStep DEF McuStep
<1> QED BY <1>1, McuInvAlways, PTL DEF McuSpec, ActuationIsSound, ActuatesSoundly

-----------------------------------------------------------------------------
(* The root and the due jobs.                                              *)

\* The trigger ticks the two ways into the queue compute, before they wrap.
TicksMade ==
  SlotPositions \cup
  {x + position * TicksPerMm + LaneComp[lane] :
     x \in -MaxTravel..MaxTravel, position \in {p \in Positions : p >= 0},
     lane \in DOMAIN LaneComp}

\* None of them wraps, nor does its distance to a tick of the dispatch step.
NothingWraps ==
  \A t \in TicksMade :
    /\ t \in -HalfRange..(HalfRange - 1)
    /\ \A now \in DispatchTicks : now - t \in -HalfRange..(HalfRange - 1)

TicksInv == \A e \in Contents(heap) : e.trigger_tick \in TicksMade

LEMMA TicksMadeAreInts == TicksMade \subseteq Int
BY McuAssumption DEF TicksMade

\* What an accepted job's tick is.
LEMMA AcceptedTick ==
  ASSUME McuInv, TicksInv, NothingWraps, NEW lane \in Lanes, NEW tick \in TicksMade,
         ~Full(heap), Accept(lane, tick)
  PROVE  TicksInv'
<1> DEFINE e == [id |-> [job |-> jobs + 1, lane |-> lane], trigger_tick |-> Wrap(tick)]
<1>1. Wrap(tick) = tick
  BY WrapFacts, TicksMadeAreInts DEF NothingWraps
<1>2. e \in Events /\ e.id.job = jobs + 1 /\ e.trigger_tick = tick
  <2>1. [job |-> jobs + 1, lane |-> lane] \in Ids
    BY McuAssumption DEF McuInv, QueueInv, JobsInv, Accept
  <2> QED BY <1>1, <2>1, WrapFacts, TicksMadeAreInts DEF Events
<1>3. heap' = Pushed(heap, e)
  BY DEF Accept
<1> HIDE DEF e
<1>4. e \notin Contents(heap)
  BY <1>2, McuAssumption DEF McuInv, QueueInv, JobsInv, Accept
<1>5. Contents(heap') = Contents(heap) \cup {e}
  BY <1>2, <1>3, <1>4, HeapContents, PushedFacts DEF McuInv, QueueInv
<1> QED BY <1>2, <1>5 DEF TicksInv

LEMMA FewerTicks ==
  ASSUME McuInv, TicksInv, Pop \/ Clear \/ UNCHANGED heap
  PROVE  TicksInv'
<1>1. CASE Pop
  <2>1. Contents(heap') = Contents(heap) \ {heap[1]}
    BY <1>1, HeapContents, PoppedFacts DEF McuInv, QueueInv, Pop
  <2> QED BY <2>1 DEF TicksInv
<1>2. CASE Clear
  BY <1>2 DEF Clear, TicksInv, Contents
<1>3. CASE UNCHANGED heap
  BY <1>3 DEF TicksInv, Contents
<1> QED BY <1>1, <1>2, <1>3

LEMMA TicksStep ==
  ASSUME McuInv, TicksInv, NothingWraps, [McuNext]_mcuVars
  PROVE  TicksInv'
<1>1. ASSUME NEW lane \in DOMAIN LaneComp, NEW position \in Positions,
             Schedule(lane, position)
      PROVE  TicksInv'
  <2>1. CASE EnterSafe("QUEUE_OVERFLOW")
    BY <2>1, FewerTicks DEF EnterSafe, ClearQueue
  <2>2. CASE /\ ~Full(heap)
             /\ Accept(lane, encoderTicks + position * TicksPerMm + LaneComp[lane])
    <3> DEFINE tick == encoderTicks + position * TicksPerMm + LaneComp[lane]
    <3>1. tick \in TicksMade /\ lane \in Lanes
      BY <1>1 DEF Schedule, McuInv, ScalarInv, TicksMade, Lanes
    <3> HIDE DEF tick
    <3> QED BY <2>2, <3>1, AcceptedTick DEF tick
  <2> QED BY <1>1, <2>1, <2>2 DEF Schedule
<1>2. ASSUME NEW lane \in SlotLanes, NEW position \in SlotPositions,
             CmdSched(lane, position)
      PROVE  TicksInv'
  <2>1. position \in TicksMade /\ lane \in Lanes
    BY DEF TicksMade, Lanes
  <2> QED BY <1>2, <2>1, AcceptedTick, FewerTicks DEF CmdSched
<1>3. CASE UNCHANGED mcuVars
  BY <1>3, FewerTicks DEF mcuVars
<1>4. ASSUME NEW now \in DispatchTicks, Dispatch(now) PROVE TicksInv'
  BY <1>4, FewerTicks DEF Dispatch, PopRoot
<1>5. CASE Dequeue \/ CmdResetQueue \/ \E reason \in FaultReasons : Fault(reason)
  BY <1>5, FewerTicks DEF Dequeue, CmdResetQueue, Fault, EnterSafe, PopRoot, ClearQueue
<1>6. CASE \/ ClearSafe \/ EncoderReset \/ \E direction \in {-1, 1} : EncoderTick(direction)
           \/ CmdHello \/ CmdHeartbeat \/ CmdSetMode \/ CmdGetState \/ CmdUnknown
  <2>1. UNCHANGED heap
    BY <1>6 DEF ClearSafe, EncoderReset, EncoderTick, CmdHello, CmdHeartbeat, CmdSetMode,
                CmdGetState, CmdUnknown
  <2> QED BY <2>1, FewerTicks
<1> QED BY <1>1, <1>2, <1>3, <1>4, <1>5, <1>6 DEF McuNext

\* Looking at the root is enough, whichever way the jobs came in, as long as
\* no tick wraps; that condition is on the constants, the code checks it
\* nowhere (scheduler.c:82-91).
THEOREM RootAlwaysSpeaksForAll == NothingWraps => (McuSpec => []RootSpeaksForAll)
<1> SUFFICES ASSUME NothingWraps PROVE McuSpec => []RootSpeaksForAll
  OBVIOUS
<1>1. McuInit => TicksInv
  BY DEF McuInit, HeapInit, TicksInv, Contents
<1>2. McuInv /\ TicksInv /\ [McuNext]_mcuVars => TicksInv'
  BY TicksStep
<1>3. McuInv /\ TicksInv => RootSpeaksForAll
  <2> SUFFICES ASSUME McuInv, TicksInv, NEW now \in DispatchTicks, ~RootIsReady(now),
                      NEW i \in 1..Len(heap)
               PROVE  ~ShouldTrigger(now, heap[i].trigger_tick)
    BY DEF RootSpeaksForAll
  <2>1. heap \in Seq(Events) /\ Ordered(heap) /\ heap # <<>> /\ 1 \in 1..Len(heap)
    BY HeapContents DEF McuInv, QueueInv
  <2>2. heap[1].trigger_tick <= heap[i].trigger_tick
    BY <2>1, RootIsEarliest
  <2>3. \A k \in {1, i} : heap[k].trigger_tick \in TicksMade
    BY <2>1 DEF TicksInv, Contents
  <2>4. \A k \in {1, i} : Behind(now, heap[k].trigger_tick) = now - heap[k].trigger_tick
    BY <2>3, TicksMadeAreInts, McuAssumption, WrapFacts DEF NothingWraps, Behind
  <2> QED BY <2>1, <2>2, <2>3, <2>4, TicksMadeAreInts, McuAssumption
          DEF RootIsReady, ShouldTrigger
<1> QED BY <1>1, <1>2, <1>3, McuInvAlways, PTL DEF McuSpec
=============================================================================
